---- MODULE Spec2Model ----
(***************************************************************************)
(* State-machine model of CascadingConfigArrayFactory                      *)
(* (src/src/lib/cascading-config-array-factory.ts) together with           *)
(* ConfigValidator.validateConfigArray (src/src/lib/index.ts).             *)
(*                                                                         *)
(* Config arrays are heap objects with identity: `heap` maps an object id  *)
(* to its element sequence and its frozen flag.  Config array elements     *)
(* carry an id of their own, which is what the module-level WeakSet        *)
(* `validated` holds.  One action models one public method call, run to    *)
(* completion, including every private method it calls.                    *)
(***************************************************************************)
EXTENDS Integers, Sequences, FiniteSets, TLC

\* ------------------------------------------------------------------------
\* Bounds of the model
\* ------------------------------------------------------------------------
\* method calls per run
MaxCalls == 3

\* config files on disk plus constructor options that differ from the default
MaxSetup == 2

\* ------------------------------------------------------------------------
\* The directory tree the queries run on
\* ------------------------------------------------------------------------
Dirs == {"/", "/home", "/home/proj", "/work"}

\* path.dirname on a directory of the tree; the root is its own parent
dirname == [d \in Dirs |->
              CASE d = "/" -> "/"
                [] d = "/home" -> "/"
                [] d = "/home/proj" -> "/home"
                [] d = "/work" -> "/"]

\* os.homedir()
homePath == "/home"

RECURSIVE Ancestors(_)
\* the proper ancestors of a directory
Ancestors(d) == IF dirname[d] = d THEN {} ELSE {dirname[d]} \cup Ancestors(dirname[d])

\* what a directory holds for loadInDirectory: no config file, a plain
\* fragment, a fragment with root:true, a fragment that fails validation, a
\* directory that cannot be read (EACCES), a config file that cannot be
\* parsed (any other error)
FileKinds == {"none", "cfg", "root", "bad", "denied", "broken"}

\* what is wrong with the "bad" config file of each directory, one defect per
\* check of validateConfigArray
defectIn == [d \in Dirs |->
               CASE d = "/" -> "env"
                 [] d = "/home" -> "globals"
                 [] d = "/home/proj" -> "processor"
                 [] d = "/work" -> "rules"]

\* the file paths handed to getConfigArrayForFile; "." is relative to cwd
FilePaths == [dir : Dirs, base : {"a.js"}] \cup {[dir |-> ".", base |-> "b.js"]}

\* the values of the cliConfig option / setOverrideConfig argument
CLIData == {"cliA", "cliB"}

Null == "null"

\* the absent filePath argument of getConfigArrayForFile
NoPath == [dir |-> "", base |-> ""]

NoArr == 0

VARIABLES
    fs,                 \* directory -> kind of config file present there
    ignoreFile,         \* whether a default .eslintignore exists in cwd
    useEslintrc,        \* slots.useEslintrc
    cwd,                \* slots.cwd
    baseConfigData,     \* slots.baseConfigData
    rulePaths,          \* slots.rulePaths (number of --rulesdir entries)
    specificConfigPath, \* slots.specificConfigPath
    cliConfigData,      \* slots.cliConfigData
    heap,               \* object id -> [elems, frozen]
    nextId,             \* next fresh object id
    baseConfigArray,    \* slots.baseConfigArray (object id)
    cliConfigArray,     \* slots.cliConfigArray (object id)
    configCache,        \* slots.configCache: directory -> object id or NoArr
    finalizeCache,      \* slots.finalizeCache: object id -> object id
    validated,          \* the WeakSet of validated elements (element ids)
    last,               \* the last method call and its outcome
    log,                \* directory -> outcomes of its queries since the last clearCache() call
    everReturned,       \* every stack a query with a file path has returned
    returnedBefore,     \* stacks returned before the last completed clearCache()
    finalBefore,        \* finalized stacks computed before the last completed clearCache()
    cachedBefore,       \* directories cached when the last completed clearCache() ran
    nCalls,             \* method calls made so far
    call,               \* the last call of a stateless function: its name and argument
    result              \* what that call returned or threw

vars == <<fs, ignoreFile, useEslintrc, cwd, baseConfigData, rulePaths,
          specificConfigPath, cliConfigData, heap, nextId, baseConfigArray,
          cliConfigArray, configCache, finalizeCache, validated, last,
          log, everReturned, returnedBefore, finalBefore, cachedBefore,
          nCalls, call, result>>

\* the record of the stateless functions' calls, which no method of the
\* factory touches
pureVars == <<call, result>>

optionVars == <<fs, ignoreFile, useEslintrc, cwd, baseConfigData, rulePaths,
                specificConfigPath>>

\* ------------------------------------------------------------------------
\* Config array elements and the ConfigArrayFactory collaborator
\* ------------------------------------------------------------------------
\* a config array element
Element(id, name, dir, file, root, defect, data) ==
    [id |-> id, name |-> name, dir |-> dir, file |-> file, root |-> root,
     defect |-> defect, data |-> data]

\* allocate a new, unfrozen config array holding es; its id is left in ret
NewArray(m, es) ==
    [m EXCEPT !.heap = (m.nextId :> [elems |-> es, frozen |-> FALSE]) @@ m.heap,
              !.nextId = m.nextId + 1,
              !.ret = m.nextId]

\* ConfigArrayFactory.loadInDirectory: a new array with the directory's
\* fragment (none when the directory has no config file); throws the fault
\* the directory's state raises
loadInDirectory(m, d, name) ==
    LET m0 == [m EXCEPT !.loaded = Append(@, d)]
    IN IF fs[d] = "denied" THEN [m0 EXCEPT !.err = "EACCES"]
       ELSE IF fs[d] = "broken" THEN [m0 EXCEPT !.err = "ParseError"]
       ELSE LET es == IF fs[d] = "none" THEN <<>>
                      ELSE <<Element(m0.nextId, name, d, TRUE,
                                     IF fs[d] = "root" THEN "true" ELSE "undef",
                                     IF fs[d] = "bad" THEN defectIn[d] ELSE "none",
                                     Null)>>
            IN NewArray([m0 EXCEPT !.nextId = m0.nextId + Len(es)], es)

\* ConfigArrayFactory.create: one element without a file path, or none for null
create(m, data, name) ==
    LET es == IF data = Null THEN <<>>
              ELSE <<Element(m.nextId, name, "", FALSE, "undef", "none", data)>>
    IN NewArray([m EXCEPT !.nextId = m.nextId + Len(es)], es)

RECURSIVE isRootFrom(_, _)
isRootFrom(es, i) ==
    IF i = 0 THEN FALSE
    ELSE IF es[i].root # "undef" THEN es[i].root = "true"
    ELSE isRootFrom(es, i - 1)

\* ConfigArray.isRoot: the last element that defines `root` decides
isRoot(es) == isRootFrom(es, Len(es))

\* Array.prototype.unshift on array a: TypeError when a is frozen
unshift(m, a, es) ==
    IF m.heap[a].frozen THEN [m EXCEPT !.err = "TypeError"]
    ELSE [m EXCEPT !.heap[a].elems = es \o @]

\* Array.prototype.push on array a
push(m, a, es) ==
    IF m.heap[a].frozen THEN [m EXCEPT !.err = "TypeError"]
    ELSE [m EXCEPT !.heap[a].elems = @ \o es]

\* a concat that appends to its first operand in place
concatInPlace(m, a, b) == [push(m, a, m.heap[b].elems) EXCEPT !.ret = a]

\* Array.prototype.concat: a new array, the operands are left alone
concat(m, a, b) == NewArray(m, m.heap[a].elems \o m.heap[b].elems)

\* ------------------------------------------------------------------------
\* createBaseConfigArray / createCLIConfigArray
\* ------------------------------------------------------------------------
\* createBaseConfigArray with the default ignore patterns pushed, not unshifted
createBaseConfigArrayAppends(m) ==
    LET m1 == create(m, baseConfigData, "BaseConfig")
        a == m1.ret
        m2 == push([m1 EXCEPT !.nextId = m1.nextId + 1], a,
                   <<Element(m1.nextId, "DefaultIgnorePattern", "", FALSE,
                             "undef", "none", Null)>>)
        m3 == IF rulePaths > 0
              THEN push([m2 EXCEPT !.nextId = m2.nextId + 1], a,
                        <<Element(m2.nextId, "--rulesdir", "", FALSE, "undef",
                                  "none", Null)>>)
              ELSE m2
    IN [m3 EXCEPT !.ret = a]

createBaseConfigArray(m) ==
    LET m1 == create(m, baseConfigData, "BaseConfig")
        a == m1.ret
        m2 == unshift([m1 EXCEPT !.nextId = m1.nextId + 1], a,
                      <<Element(m1.nextId, "DefaultIgnorePattern", "", FALSE,
                                "undef", "none", Null)>>)
        m3 == IF rulePaths > 0
              THEN push([m2 EXCEPT !.nextId = m2.nextId + 1], a,
                        <<Element(m2.nextId, "--rulesdir", "", FALSE, "undef",
                                  "none", Null)>>)
              ELSE m2
    IN [m3 EXCEPT !.ret = a]

createCLIConfigArray(m, data) ==
    LET m1 == create(m, data, "CLIOptions")
        a == m1.ret
        ign == IF ignoreFile
               THEN <<Element(m1.nextId, ".eslintignore", cwd, TRUE, "undef",
                              "none", Null)>>
               ELSE <<>>
        m2 == unshift([m1 EXCEPT !.nextId = m1.nextId + Len(ign)], a, ign)
        cfg == IF specificConfigPath # Null
               THEN <<Element(m2.nextId, "--config", cwd, TRUE, "undef",
                              "none", Null)>>
               ELSE <<>>
        m3 == unshift([m2 EXCEPT !.nextId = m2.nextId + Len(cfg)], a, cfg)
    IN [m3 EXCEPT !.ret = a]

\* ------------------------------------------------------------------------
\* CascadingConfigArrayFactory: the private methods
\* ------------------------------------------------------------------------
\* _cacheConfig without the configCache.set: the array is frozen, not stored
cacheConfigNoStore(m, directoryPath, configArray) ==
    [m EXCEPT !.heap[configArray].frozen = TRUE, !.ret = configArray]

\* _cacheConfig without the Object.freeze: the array is stored as it is
cacheConfigNoFreeze(m, directoryPath, configArray) ==
    [m EXCEPT !.configCache[directoryPath] = configArray,
              !.stored = Append(@, directoryPath),
              !.ret = configArray]

\* _cacheConfig: freeze the array and store it under the directory
_cacheConfig(m, directoryPath, configArray) ==
    [m EXCEPT !.heap[configArray].frozen = TRUE,
              !.configCache[directoryPath] = configArray,
              !.stored = Append(@, directoryPath),
              !.ret = configArray]

\* the root test of the walk with isRoot() left out of account
stopsAtRootNever(own) == FALSE

\* the test `configArray.length > 0 && configArray.isRoot()` of the walk
stopsAtRoot(own) == Len(own) > 0 /\ isRoot(own)

\* the merge with push in place of unshift: the parent's elements end up
\* behind the directory's own
mergeParentAppends(m, configArray, parentConfigArray) ==
    IF Len(m.heap[configArray].elems) > 0
    THEN [push(m, configArray, m.heap[parentConfigArray].elems)
            EXCEPT !.ret = configArray]
    ELSE [m EXCEPT !.ret = parentConfigArray]

\* the merge in which a directory without fragments takes a copy of its
\* parent's array
mergeParentCopies(m, configArray, parentConfigArray) ==
    IF Len(m.heap[configArray].elems) > 0
    THEN [unshift(m, configArray, m.heap[parentConfigArray].elems)
            EXCEPT !.ret = configArray]
    ELSE NewArray(m, m.heap[parentConfigArray].elems)

\* "Load from the ancestors and merge it": a directory with fragments
\* prepends its parent's elements to its own array, one without fragments
\* takes its parent's array itself
mergeParent(m, configArray, parentConfigArray) ==
    IF Len(m.heap[configArray].elems) > 0
    THEN [unshift(m, configArray, m.heap[parentConfigArray].elems)
            EXCEPT !.ret = configArray]
    ELSE [m EXCEPT !.ret = parentConfigArray]

RECURSIVE _loadConfigInAncestors(_, _)

\* `return this._cacheConfig(directoryPath, configArray)` unless a step
\* before it threw
cacheUnlessThrown(m, directoryPath, configArray) ==
    IF m.err # "none" THEN m ELSE _cacheConfig(m, directoryPath, configArray)

\* "Cache and return": m3.ret is the merged array
cacheMerged(m3, directoryPath) == cacheUnlessThrown(m3, directoryPath, m3.ret)

\* the walk after the parent's stack mp.ret was resolved: merge and cache
walkMerged(mp, directoryPath, configArray) ==
    IF mp.err # "none" THEN mp
    ELSE cacheMerged(mergeParent(mp, configArray, mp.ret), directoryPath)

\* the parent's stack taken from the walk of the grandparent directory
loadParentSkipsOne(m, directoryPath) ==
    IF dirname[directoryPath] # directoryPath
    THEN _loadConfigInAncestors(m, dirname[dirname[directoryPath]])
    ELSE [m EXCEPT !.ret = baseConfigArray]

\* the parent's stack: the walk of the parent directory, the base stack at
\* the filesystem root
loadParent(m, directoryPath) ==
    IF dirname[directoryPath] # directoryPath
    THEN _loadConfigInAncestors(m, dirname[directoryPath])
    ELSE [m EXCEPT !.ret = baseConfigArray]

\* the walk after loadInDirectory with every error caught as EACCES is
walkLoadedCatchesAll(m1, directoryPath) ==
    IF m1.err # "none"
    THEN _cacheConfig([m1 EXCEPT !.err = "none"], directoryPath, baseConfigArray)
    ELSE IF stopsAtRoot(m1.heap[m1.ret].elems)
    THEN cacheUnlessThrown(unshift(m1, m1.ret, m1.heap[baseConfigArray].elems),
                           directoryPath, m1.ret)
    ELSE walkMerged(loadParent(m1, directoryPath), directoryPath, m1.ret)

\* the walk after loadInDirectory with no catch of EACCES
walkLoadedRethrows(m1, directoryPath) ==
    IF m1.err # "none" THEN m1
    ELSE IF stopsAtRoot(m1.heap[m1.ret].elems)
    THEN cacheUnlessThrown(unshift(m1, m1.ret, m1.heap[baseConfigArray].elems),
                           directoryPath, m1.ret)
    ELSE walkMerged(loadParent(m1, directoryPath), directoryPath, m1.ret)

\* the walk after loadInDirectory ended in m1 (m1.ret the loaded array)
walkLoaded(m1, directoryPath) ==
    IF m1.err = "EACCES"
    THEN _cacheConfig([m1 EXCEPT !.err = "none"], directoryPath, baseConfigArray)
    ELSE IF m1.err # "none" THEN m1
    ELSE IF stopsAtRoot(m1.heap[m1.ret].elems)
    THEN cacheUnlessThrown(unshift(m1, m1.ret, m1.heap[baseConfigArray].elems),
                           directoryPath, m1.ret)
    ELSE walkMerged(loadParent(m1, directoryPath), directoryPath, m1.ret)

\* the walk without the "Hit cache" return
walkIgnoresCache(m, directoryPath) ==
    IF ~useEslintrc THEN [m EXCEPT !.ret = baseConfigArray]
    ELSE IF directoryPath = homePath /\ cwd # homePath
    THEN _cacheConfig(m, directoryPath, baseConfigArray)
    ELSE walkLoaded(loadInDirectory(m, directoryPath, ".eslintrc"), directoryPath)

\* the walk without the "Consider this is root" test of the home directory
walkIgnoresHome(m, directoryPath) ==
    IF ~useEslintrc THEN [m EXCEPT !.ret = baseConfigArray]
    ELSE IF m.configCache[directoryPath] # NoArr
    THEN [m EXCEPT !.ret = m.configCache[directoryPath]]
    ELSE walkLoaded(loadInDirectory(m, directoryPath, ".eslintrc"), directoryPath)

\* _loadConfigInAncestors: the walk from a leaf directory towards the root
_loadConfigInAncestors(m, directoryPath) ==
    IF ~useEslintrc THEN [m EXCEPT !.ret = baseConfigArray]
    ELSE IF m.configCache[directoryPath] # NoArr
    THEN [m EXCEPT !.ret = m.configCache[directoryPath]]
    ELSE IF directoryPath = homePath /\ cwd # homePath
    THEN _cacheConfig(m, directoryPath, baseConfigArray)
    ELSE walkLoaded(loadInDirectory(m, directoryPath, ".eslintrc"), directoryPath)

\* the error one element's checks raise, "none" when all four pass:
\* validateEnvironment, validateGlobals, validateProcessor, validateRules
validateElement(e) ==
    CASE e.defect = "env" -> "UnknownEnvironment"
      [] e.defect = "globals" -> "InvalidGlobal"
      [] e.defect = "processor" -> "UnknownProcessor"
      [] e.defect = "rules" -> "InvalidRule"
      [] OTHER -> "none"

ValidationErrors == {"UnknownEnvironment", "InvalidGlobal", "UnknownProcessor", "InvalidRule"}

RECURSIVE validateFromNoSkip(_, _, _)
\* the loop of validateConfigArray without the `validated.has(element)` test
validateFromNoSkip(m, es, i) ==
    IF i > Len(es) THEN m
    ELSE LET m1 == [m EXCEPT !.validated = @ \cup {es[i].id},
                             !.checked = Append(@, es[i].id)]
         IN IF validateElement(es[i]) # "none"
            THEN [m1 EXCEPT !.err = validateElement(es[i])]
            ELSE validateFromNoSkip(m1, es, i + 1)

RECURSIVE validateFrom(_, _, _)
\* the loop of validateConfigArray from element i on: an element is added
\* to `validated` before its checks run
validateFrom(m, es, i) ==
    IF i > Len(es) THEN m
    ELSE IF es[i].id \in m.validated THEN validateFrom(m, es, i + 1)
    ELSE LET m1 == [m EXCEPT !.validated = @ \cup {es[i].id},
                             !.checked = Append(@, es[i].id)]
         IN IF validateElement(es[i]) # "none"
            THEN [m1 EXCEPT !.err = validateElement(es[i])]
            ELSE validateFrom(m1, es, i + 1)

\* ConfigValidator.validateConfigArray
validateConfigArray(m, configArray) == validateFrom(m, m.heap[configArray].elems, 1)

\* the personal-config test without `useEslintrc &&`
needsPersonalAlways(m, configArray) ==
    /\ \A i \in 1..Len(m.heap[configArray].elems) :
          ~m.heap[configArray].elems[i].file
    /\ \A i \in 1..Len(m.heap[cliConfigArray].elems) :
          ~m.heap[cliConfigArray].elems[i].file

\* "Load the personal config if there are no regular config files": the test
needsPersonal(m, configArray) ==
    /\ useEslintrc
    /\ \A i \in 1..Len(m.heap[configArray].elems) :
          ~m.heap[configArray].elems[i].file
    /\ \A i \in 1..Len(m.heap[cliConfigArray].elems) :
          ~m.heap[cliConfigArray].elems[i].file

\* finalConfigArray.concat(personalConfigArray), m1.ret the loaded array
concatPersonal(m1, configArray) ==
    IF m1.err # "none" THEN m1 ELSE concat(m1, configArray, m1.ret)

\* finalConfigArray after the personal-config step
withPersonal(m, configArray) ==
    IF needsPersonal(m, configArray)
    THEN concatPersonal([loadInDirectory(m, homePath, "PersonalConfig")
                           EXCEPT !.loaded = m.loaded, !.personal = TRUE],
                        configArray)
    ELSE [m EXCEPT !.ret = configArray]

\* the CLI step with the operands of concat exchanged
withCLIFirst(m2) ==
    IF m2.err # "none" THEN m2
    ELSE IF Len(m2.heap[cliConfigArray].elems) > 0
    THEN concat(m2, cliConfigArray, m2.ret)
    ELSE m2

\* "Apply CLI options": finalConfigArray.concat(cliConfigArray)
withCLI(m2) ==
    IF m2.err # "none" THEN m2
    ELSE IF Len(m2.heap[cliConfigArray].elems) > 0
    THEN concat(m2, m2.ret, cliConfigArray)
    ELSE m2

\* "Cache it": freeze the validated array, store it under the walk result
cacheFinal(m4, configArray, finalConfigArray) ==
    IF m4.err # "none" THEN m4
    ELSE [m4 EXCEPT !.heap[finalConfigArray].frozen = TRUE,
                    !.finalizeCache = (configArray :> finalConfigArray) @@ @,
                    !.ret = finalConfigArray]

\* validate finalConfigArray (m3.ret), then cache it
validateAndCache(m3, configArray) ==
    IF m3.err # "none" THEN m3
    ELSE cacheFinal(validateConfigArray(m3, m3.ret), configArray, m3.ret)

\* the part of _finalizeConfigArray that runs on a finalize-cache miss
finalizeMiss(m, configArray) ==
    validateAndCache(withCLI(withPersonal(m, configArray)), configArray)

\* the NotFound test with `< 1` in place of `<= 1`
throwIfEmpty(m1, directoryPath, ignoreNotFoundError) ==
    IF m1.err # "none" THEN m1
    ELSE IF ~ignoreNotFoundError /\ useEslintrc /\ Len(m1.heap[m1.ret].elems) < 1
    THEN [m1 EXCEPT !.err = "ConfigurationNotFoundError", !.errDir = directoryPath]
    ELSE m1

\* the NotFound test with the ignoreNotFoundError option left out
throwDespiteIgnore(m1, directoryPath, ignoreNotFoundError) ==
    IF m1.err # "none" THEN m1
    ELSE IF useEslintrc /\ Len(m1.heap[m1.ret].elems) <= 1
    THEN [m1 EXCEPT !.err = "ConfigurationNotFoundError", !.errDir = directoryPath]
    ELSE m1

\* the end of _finalizeConfigArray, m1.ret the finalized array: throw
\* ConfigurationNotFoundError or return the array
throwIfNotFound(m1, directoryPath, ignoreNotFoundError) ==
    IF m1.err # "none" THEN m1
    ELSE IF ~ignoreNotFoundError /\ useEslintrc /\ Len(m1.heap[m1.ret].elems) <= 1
    THEN [m1 EXCEPT !.err = "ConfigurationNotFoundError", !.errDir = directoryPath]
    ELSE m1

\* _finalizeConfigArray
_finalizeConfigArray(m, configArray, directoryPath, ignoreNotFoundError) ==
    throwIfNotFound(IF configArray \in DOMAIN m.finalizeCache
                    THEN [m EXCEPT !.ret = m.finalizeCache[configArray]]
                    ELSE finalizeMiss(m, configArray),
                    directoryPath, ignoreNotFoundError)

\* ------------------------------------------------------------------------
\* The public methods, each run to completion on the current state
\* ------------------------------------------------------------------------
\* the current state as the record the method bodies thread through
Machine ==
    [heap |-> heap, nextId |-> nextId, configCache |-> configCache,
     finalizeCache |-> finalizeCache, validated |-> validated,
     loaded |-> <<>>, stored |-> <<>>, personal |-> FALSE, checked |-> <<>>,
     walk |-> NoArr, err |-> "none", errDir |-> "", ret |-> NoArr]

\* path.dirname(filePath) with no path.resolve against cwd: a relative
\* path is taken from the filesystem root
directoryOfUnresolved(filePath) == IF filePath.dir = "." THEN "/" ELSE filePath.dir

\* path.dirname(path.resolve(cwd, filePath))
directoryOf(filePath) == IF filePath.dir = "." THEN cwd ELSE filePath.dir

\* the call `this._finalizeConfigArray(this._loadConfigInAncestors(...), ...)`
\* once the walk ended in mw
finalizeWalk(mw, directoryPath, ignoreNotFoundError) ==
    IF mw.err # "none" THEN mw
    ELSE _finalizeConfigArray([mw EXCEPT !.walk = mw.ret], mw.ret,
                              directoryPath, ignoreNotFoundError)

\* getConfigArrayForFile that resolves cwd when it is given no file path
getConfigArrayForFileAlwaysWalks(m, filePath, ignoreNotFoundError) ==
    IF filePath = NoPath
    THEN finalizeWalk(_loadConfigInAncestors(m, cwd), cwd, ignoreNotFoundError)
    ELSE finalizeWalk(_loadConfigInAncestors(m, directoryOf(filePath)),
                      directoryOf(filePath), ignoreNotFoundError)

\* getConfigArrayForFile(filePath, {ignoreNotFoundError})
getConfigArrayForFile(m, filePath, ignoreNotFoundError) ==
    IF filePath = NoPath
    THEN NewArray(m, m.heap[baseConfigArray].elems \o m.heap[cliConfigArray].elems)
    ELSE finalizeWalk(_loadConfigInAncestors(m, directoryOf(filePath)),
                      directoryOf(filePath), ignoreNotFoundError)

\* the slots and the `validated` set as a call that ended in m leaves them
Commit(m) ==
    /\ heap' = m.heap
    /\ nextId' = m.nextId
    /\ configCache' = m.configCache
    /\ finalizeCache' = m.finalizeCache
    /\ validated' = m.validated

Outcome(m) == IF m.err = "none" THEN "ok" ELSE m.err

\* what the caller gets: the array returned, none when the call threw
Returned(m) == IF m.err = "none" THEN m.ret ELSE NoArr

\* a getConfigArrayForFile call for filePath, whose directory is d, ended in m
QueryEnds(m, filePath, d, ignoreNotFoundError) ==
    /\ Commit(m)
    /\ last' = [op |-> "query", path |-> filePath, dir |-> d,
                ignore |-> ignoreNotFoundError,
                outcome |-> Outcome(m), ret |-> Returned(m),
                walk |-> m.walk, loaded |-> m.loaded, stored |-> m.stored,
                personal |-> m.personal, checked |-> m.checked,
                errDir |-> m.errDir]
    /\ log' = [log EXCEPT ![d] = Append(@, [path |-> filePath,
                                              outcome |-> Outcome(m),
                                              ret |-> Returned(m),
                                              loaded |-> m.loaded])]
    /\ everReturned' = IF m.err = "none" THEN everReturned \cup {m.ret}
                       ELSE everReturned

\* a call of getConfigArrayForFile with a file path
Query(filePath, ignoreNotFoundError) ==
    /\ nCalls < MaxCalls
    /\ nCalls' = nCalls + 1
    /\ QueryEnds(getConfigArrayForFile(Machine, filePath, ignoreNotFoundError),
                 filePath, directoryOf(filePath), ignoreNotFoundError)
    /\ UNCHANGED <<pureVars, optionVars, cliConfigData, baseConfigArray, cliConfigArray,
                   returnedBefore, finalBefore, cachedBefore>>

NoCall(op) ==
    [op |-> op, path |-> NoPath, dir |-> "", ignore |-> FALSE,
     outcome |-> "ok", ret |-> NoArr,
     walk |-> NoArr, loaded |-> <<>>, stored |-> <<>>, personal |-> FALSE,
     checked |-> <<>>, errDir |-> ""]

\* a getConfigArrayForFile call without a file path ended in m
QueryNoPathEnds(m) ==
    /\ Commit(m)
    /\ last' = [op |-> "queryNoPath", path |-> NoPath, dir |-> "",
                ignore |-> FALSE,
                outcome |-> Outcome(m), ret |-> Returned(m),
                walk |-> m.walk, loaded |-> m.loaded, stored |-> m.stored,
                personal |-> m.personal, checked |-> m.checked,
                errDir |-> m.errDir]

\* a call of getConfigArrayForFile without a file path
QueryNoPath ==
    /\ nCalls < MaxCalls
    /\ nCalls' = nCalls + 1
    /\ QueryNoPathEnds(getConfigArrayForFile(Machine, NoPath, FALSE))
    /\ UNCHANGED <<pureVars, optionVars, cliConfigData, baseConfigArray, cliConfigArray,
                   log, everReturned, returnedBefore, finalBefore,
                   cachedBefore>>

\* a setOverrideConfig that rebuilds the CLI stack at once
setOverrideConfigRebuilds(configData) ==
    /\ nCalls < MaxCalls
    /\ nCalls' = nCalls + 1
    /\ cliConfigData' = configData
    /\ heap' = createCLIConfigArray(Machine, configData).heap
    /\ nextId' = createCLIConfigArray(Machine, configData).nextId
    /\ cliConfigArray' = createCLIConfigArray(Machine, configData).ret
    /\ last' = NoCall("setOverrideConfig")
    /\ UNCHANGED <<pureVars, optionVars, baseConfigArray,
                   configCache, finalizeCache, validated, log, everReturned,
                   returnedBefore, finalBefore, cachedBefore>>

\* setOverrideConfig(configData)
setOverrideConfig(configData) ==
    /\ nCalls < MaxCalls
    /\ nCalls' = nCalls + 1
    /\ cliConfigData' = configData
    /\ last' = NoCall("setOverrideConfig")
    /\ UNCHANGED <<pureVars, optionVars, heap, nextId, baseConfigArray, cliConfigArray,
                   configCache, finalizeCache, validated, log, everReturned,
                   returnedBefore, finalBefore, cachedBefore>>

\* the values of a function
Range(f) == {f[x] : x \in DOMAIN f}

\* clearCache() without the configCache.clear()
clearCacheKeepsCache(fault) ==
    LET mb == createBaseConfigArray(Machine)
        mc == createCLIConfigArray(mb, cliConfigData)
    IN /\ nCalls < MaxCalls
       /\ nCalls' = nCalls + 1
       /\ fault = "base" => rulePaths > 0
       /\ fault = "cli" => specificConfigPath # Null
       /\ CASE fault = "base" ->
                 /\ UNCHANGED <<heap, nextId, baseConfigArray, cliConfigArray,
                                configCache>>
            [] fault = "cli" ->
                 /\ heap' = mb.heap
                 /\ nextId' = mb.nextId
                 /\ baseConfigArray' = mb.ret
                 /\ UNCHANGED <<cliConfigArray, configCache>>
            [] OTHER ->
                 /\ heap' = mc.heap
                 /\ nextId' = mc.nextId
                 /\ baseConfigArray' = mb.ret
                 /\ cliConfigArray' = mc.ret
                 /\ configCache' = configCache
       /\ last' = [NoCall("clearCache") EXCEPT
                     !.outcome = IF fault = "none" THEN "ok" ELSE "LoadError"]
       /\ log' = [d \in Dirs |-> <<>>]
       /\ returnedBefore' = IF fault = "none" THEN everReturned ELSE returnedBefore
       /\ finalBefore' = IF fault = "none" THEN Range(finalizeCache) ELSE finalBefore
       /\ cachedBefore' = IF fault = "none"
                          THEN {d \in Dirs : configCache[d] # NoArr}
                          ELSE cachedBefore
       /\ UNCHANGED <<pureVars, optionVars, cliConfigData, finalizeCache, validated,
                      everReturned>>

\* clearCache() without the rebuild of slots.baseConfigArray
clearCacheKeepsBase(fault) ==
    LET mb == createBaseConfigArray(Machine)
        mc == createCLIConfigArray(mb, cliConfigData)
    IN /\ nCalls < MaxCalls
       /\ nCalls' = nCalls + 1
       /\ fault = "base" => rulePaths > 0
       /\ fault = "cli" => specificConfigPath # Null
       /\ CASE fault = "base" ->
                 /\ UNCHANGED <<heap, nextId, baseConfigArray, cliConfigArray,
                                configCache>>
            [] fault = "cli" ->
                 /\ heap' = mb.heap
                 /\ nextId' = mb.nextId
                 /\ baseConfigArray' = mb.ret
                 /\ UNCHANGED <<cliConfigArray, configCache>>
            [] OTHER ->
                 /\ heap' = mc.heap
                 /\ nextId' = mc.nextId
                 /\ baseConfigArray' = baseConfigArray
                 /\ cliConfigArray' = mc.ret
                 /\ configCache' = [d \in Dirs |-> NoArr]
       /\ last' = [NoCall("clearCache") EXCEPT
                     !.outcome = IF fault = "none" THEN "ok" ELSE "LoadError"]
       /\ log' = [d \in Dirs |-> <<>>]
       /\ returnedBefore' = IF fault = "none" THEN everReturned ELSE returnedBefore
       /\ finalBefore' = IF fault = "none" THEN Range(finalizeCache) ELSE finalBefore
       /\ cachedBefore' = IF fault = "none"
                          THEN {d \in Dirs : configCache[d] # NoArr}
                          ELSE cachedBefore
       /\ UNCHANGED <<pureVars, optionVars, cliConfigData, finalizeCache, validated,
                      everReturned>>

\* clearCache(); fault names the step that throws: loadRules inside
\* createBaseConfigArray ("base"), loadFile inside createCLIConfigArray
\* ("cli"), or nothing ("none")
clearCache(fault) ==
    LET mb == createBaseConfigArray(Machine)
        mc == createCLIConfigArray(mb, cliConfigData)
    IN /\ nCalls < MaxCalls
       /\ nCalls' = nCalls + 1
       /\ fault = "base" => rulePaths > 0
       /\ fault = "cli" => specificConfigPath # Null
       /\ CASE fault = "base" ->
                 /\ UNCHANGED <<heap, nextId, baseConfigArray, cliConfigArray,
                                configCache>>
            [] fault = "cli" ->
                 /\ heap' = mb.heap
                 /\ nextId' = mb.nextId
                 /\ baseConfigArray' = mb.ret
                 /\ UNCHANGED <<cliConfigArray, configCache>>
            [] OTHER ->
                 /\ heap' = mc.heap
                 /\ nextId' = mc.nextId
                 /\ baseConfigArray' = mb.ret
                 /\ cliConfigArray' = mc.ret
                 /\ configCache' = [d \in Dirs |-> NoArr]
       /\ last' = [NoCall("clearCache") EXCEPT
                     !.outcome = IF fault = "none" THEN "ok" ELSE "LoadError"]
       /\ log' = [d \in Dirs |-> <<>>]
       /\ returnedBefore' = IF fault = "none" THEN everReturned ELSE returnedBefore
       /\ finalBefore' = IF fault = "none" THEN Range(finalizeCache) ELSE finalBefore
       /\ cachedBefore' = IF fault = "none"
                          THEN {d \in Dirs : configCache[d] # NoArr}
                          ELSE cachedBefore
       /\ UNCHANGED <<pureVars, optionVars, cliConfigData, finalizeCache, validated,
                      everReturned>>

\* ------------------------------------------------------------------------
\* Construction
\* ------------------------------------------------------------------------
EmptyMachine ==
    [heap |-> <<>>, nextId |-> 1, configCache |-> [d \in Dirs |-> NoArr],
     finalizeCache |-> <<>>, validated |-> {},
     loaded |-> <<>>, stored |-> <<>>, personal |-> FALSE, checked |-> <<>>,
     walk |-> NoArr, err |-> "none", errDir |-> "", ret |-> NoArr]

\* how many options differ from their defaults (the default cwd is a
\* directory other than the home directory)
OptionsSet ==
    (IF useEslintrc THEN 0 ELSE 1) + (IF cwd = homePath THEN 1 ELSE 0)
    + (IF baseConfigData = Null THEN 0 ELSE 1)
    + rulePaths + (IF specificConfigPath = Null THEN 0 ELSE 1)
    + (IF cliConfigData = Null THEN 0 ELSE 1) + (IF ignoreFile THEN 1 ELSE 0)

\* the state the constructor leaves behind, the options being chosen
Constructed ==
    /\ LET mb == createBaseConfigArray(EmptyMachine)
           mc == createCLIConfigArray(mb, cliConfigData)
       IN /\ heap = mc.heap
          /\ nextId = mc.nextId
          /\ baseConfigArray = mb.ret
          /\ cliConfigArray = mc.ret
    /\ configCache = [d \in Dirs |-> NoArr]
    /\ finalizeCache = <<>>
    /\ validated = {}
    /\ last = NoCall("init")
    /\ log = [d \in Dirs |-> <<>>]
    /\ everReturned = {}
    /\ returnedBefore = {}
    /\ finalBefore = {}
    /\ cachedBefore = {}
    /\ nCalls = 0

\* no stateless function has been called
NoFunctionCalled == call = [fn |-> "none"] /\ result = [none |-> TRUE]

\* the constructor
Init ==
    /\ fs \in [Dirs -> FileKinds]
    /\ ignoreFile \in BOOLEAN
    /\ useEslintrc \in BOOLEAN
    /\ cwd \in {"/home", "/work"}
    /\ baseConfigData \in {Null, "base"}
    /\ rulePaths \in {0, 1}
    /\ specificConfigPath \in {Null, "c.json"}
    /\ cliConfigData \in {Null, "cliA"}
    /\ Cardinality({d \in Dirs : fs[d] # "none"}) + OptionsSet <= MaxSetup
    /\ Constructed
    /\ NoFunctionCalled

Next ==
    \/ \E filePath \in FilePaths, ignoreNotFoundError \in BOOLEAN :
          Query(filePath, ignoreNotFoundError)
    \/ QueryNoPath
    \/ \E configData \in CLIData : setOverrideConfig(configData)
    \/ \E fault \in {"none", "base", "cli"} : clearCache(fault)

Spec == Init /\ [][Next]_vars

\* ------------------------------------------------------------------------
\* The stateless functions: the methods of ConfigValidator
\* (src/src/lib/index.ts), the functions of config-ops and
\* ExtractedConfig.toCompatibleObjectAsConfigFileContent
\* ------------------------------------------------------------------------
\* extra elements of an array rule config
MaxOptions == 1

\* ignore patterns of an extracted config
MaxPatterns == 3

\* entries of IgnorePattern.DefaultPatterns
MaxDefaults == 2

\* JavaScript values: a number, a string (a sequence of characters), an
\* array, or another value named by its kind
Num(n) == [num |-> n]
Str(cs) == [str |-> cs]
Arr(es) == [arr |-> es]
Other(kind) == [other |-> kind]
Undefined == Other("undefined")

IsNumber(v) == DOMAIN v = {"num"}
IsString(v) == DOMAIN v = {"str"}
IsArray(v) == DOMAIN v = {"arr"}

Letters == <<"a", "b", "c", "d", "e", "f", "g", "h", "i", "j", "k", "l", "m", "n", "o", "p", "q", "r", "s", "t", "u", "v", "w", "x", "y", "z">>
Capitals == <<"A", "B", "C", "D", "E", "F", "G", "H", "I", "J", "K", "L", "M", "N", "O", "P", "Q", "R", "S", "T", "U", "V", "W", "X", "Y", "Z">>

\* the capital of a letter, any other character itself
UpperOf(c) ==
    IF \E i \in 1..Len(Letters) : Letters[i] = c
    THEN Capitals[CHOOSE i \in 1..Len(Letters) : Letters[i] = c]
    ELSE c

\* String.prototype.toLowerCase, character by character
LowerOf(c) ==
    IF \E i \in 1..Len(Capitals) : Capitals[i] = c
    THEN Letters[CHOOSE i \in 1..Len(Capitals) : Capitals[i] = c]
    ELSE c

\* a toLowerCase that changes nothing
toLowerCaseKeepsCase(cs) == cs

toLowerCase(cs) == [i \in 1..Len(cs) |-> LowerOf(cs[i])]

OffStr == <<"o", "f", "f">>
WarnStr == <<"w", "a", "r", "n">>
ErrorStr == <<"e", "r", "r", "o", "r">>

\* severityMap of the validator
severityMap == (ErrorStr :> 2) @@ (WarnStr :> 1) @@ (OffStr :> 0)

\* RULE_SEVERITY of config-ops
RULE_SEVERITY == (OffStr :> 0) @@ (WarnStr :> 1) @@ (ErrorStr :> 2)

\* property names every object literal inherits from Object.prototype
ObjectPrototypeKeys ==
    {<<"c", "o", "n", "s", "t", "r", "u", "c", "t", "o", "r">>,
     <<"_", "_", "p", "r", "o", "t", "o", "_", "_">>,
     <<"t", "o", "S", "t", "r", "i", "n", "g">>,
     <<"v", "a", "l", "u", "e", "O", "f">>,
     <<"h", "a", "s", "O", "w", "n", "P", "r", "o", "p", "e", "r", "t", "y">>}

\* obj[key] on an object literal: the own property, else the inherited
\* one, else undefined
getProperty(obj, key) ==
    IF key \in DOMAIN obj THEN Num(obj[key])
    ELSE IF key \in ObjectPrototypeKeys THEN Other("inherited")
    ELSE Undefined

\* array[0]
ElementZero(v) == IF Len(v.arr) > 0 THEN v.arr[1] ELSE Undefined

\* the values JavaScript treats as false
IsFalsy(v) ==
    v \in {Num(0), Str(<<>>), Undefined, Other("null"), Other("NaN"), Other("false")}

\* x || 0
OrZero(v) == IF IsFalsy(v) THEN Num(0) ELSE v

\* the test `normSeverity === 0 || normSeverity === 1 || normSeverity === 2`
IsSeverityNumber(v) == v \in {Num(0), Num(1), Num(2)}

\* the rest of validateRuleSeverity once `severity` is known
normalizeOrThrow(severity) ==
    IF IsSeverityNumber(IF IsString(severity)
                        THEN getProperty(severityMap, toLowerCase(severity.str))
                        ELSE severity)
    THEN [returns |-> IF IsString(severity)
                      THEN getProperty(severityMap, toLowerCase(severity.str))
                      ELSE severity]
    ELSE [throws |-> "Error"]

\* ConfigValidator.validateRuleSeverity
validateRuleSeverity(options) ==
    normalizeOrThrow(IF IsArray(options) THEN ElementZero(options) ELSE options)

\* the rest of getRuleSeverity once `severityValue` is known
severityOrZero(severityValue) ==
    IF IsSeverityNumber(severityValue) THEN [returns |-> severityValue]
    ELSE IF IsString(severityValue)
    THEN [returns |-> OrZero(getProperty(RULE_SEVERITY,
                                         toLowerCase(severityValue.str)))]
    ELSE [returns |-> Num(0)]

\* getRuleSeverity
getRuleSeverity(ruleConfig) ==
    severityOrZero(IF IsArray(ruleConfig) THEN ElementZero(ruleConfig)
                   ELSE ruleConfig)

\* a startsWith that compares the first element only
startsWithFirstOnly(xs, ys) ==
    Len(xs) >= Len(ys) /\ (Len(ys) > 0 => ys[1] = xs[1])

\* startsWith(xs, ys)
startsWith(xs, ys) ==
    Len(xs) >= Len(ys) /\ \A i \in 1..Len(ys) : ys[i] = xs[i]

\* Array.prototype.slice(n)
slice(xs, n) == SubSeq(xs, n + 1, Len(xs))

\* `ignores?.patterns ?? []`
patternsOf(ignores) ==
    IF DOMAIN ignores = {"patterns"} THEN ignores.patterns ELSE <<>>

\* `config.parser?.filePath ?? null` with the parser's definition in place
\* of its filePath
parserOfAsDefinition(parser) ==
    IF parser = Other("null") THEN Null ELSE parser.definition

\* `config.parser?.filePath ?? null`
parserOf(parser) ==
    IF parser = Other("null") THEN Null ELSE parser.filePath

\* Array.prototype.filter(Boolean) on strings: the empty string is dropped
filterBoolean(xs) == SelectSeq(xs, LAMBDA x : x # "")

\* Array.prototype.reverse
reverse(xs) == [i \in 1..Len(xs) |-> xs[Len(xs) + 1 - i]]

\* `ignorePatterns` of the converted object
ignorePatternsOf(ignores, DefaultPatterns) ==
    IF startsWith(patternsOf(ignores), DefaultPatterns)
    THEN slice(patternsOf(ignores), Len(DefaultPatterns))
    ELSE patternsOf(ignores)

\* ExtractedConfig.toCompatibleObjectAsConfigFileContent: parser, plugins
\* and ignorePatterns of the converted object (the other properties are
\* copied); config.plugins is given by its keys in Object.keys order,
\* DefaultPatterns is IgnorePattern.DefaultPatterns
toCompatibleObjectAsConfigFileContent(config, DefaultPatterns) ==
    [returns |->
       [parser |-> parserOf(config.parser),
        plugins |-> reverse(filterBoolean(config.plugins)),
        ignorePatterns |-> ignorePatternsOf(config.ignores, DefaultPatterns)]]

\* ------------------------------------------------------------------------
\* ConfigValidator: rule options against the rule's schema
\* ------------------------------------------------------------------------
\* rule.schema and rule.meta.schema: undefined, a tuple of item schemas
\* ([tuple |-> items]) or a full schema of an options array
IsTuple(schema) == DOMAIN schema = {"tuple"}

\* `rule.schema || rule.meta?.schema`
schemaOf(rule) ==
    IF ~IsFalsy(rule.schema) THEN rule.schema
    ELSE IF rule.meta = Undefined THEN Undefined
    ELSE rule.meta.schema

\* the rest of getRuleOptionsSchema once `schema` is known
completeSchema(schema) ==
    IF IsTuple(schema)
    THEN IF Len(schema.tuple) > 0
         THEN [type |-> "array", items |-> schema.tuple, minItems |-> 0,
               maxItems |-> Len(schema.tuple)]
         ELSE [type |-> "array", items |-> <<>>, minItems |-> 0, maxItems |-> 0]
    ELSE IF IsFalsy(schema) THEN Other("null") ELSE schema

\* ConfigValidator.getRuleOptionsSchema
getRuleOptionsSchema(rule) ==
    IF rule = Other("null") THEN Other("null") ELSE completeSchema(schemaOf(rule))

\* a value against an item schema {type: ...}
matchesType(item, value) ==
    CASE item.type = "string" -> IsString(value)
      [] item.type = "object" -> value = Other("object")
      [] OTHER -> TRUE

\* the compiled validator of an options-array schema applied to the
\* options: TRUE when it reports no errors
validateRule(schema, localOptions) ==
    /\ Len(localOptions) >= schema.minItems
    /\ Len(localOptions) <= schema.maxItems
    /\ \A i \in 1..Len(localOptions) :
          i <= Len(schema.items) => matchesType(schema.items[i], localOptions[i])

\* ConfigValidator.validateRuleSchema; ruleValidators holds for a rule the
\* validator compiled from its schema
validateRuleSchema(rule, localOptions) ==
    IF getRuleOptionsSchema(rule) = Other("null") THEN [returns |-> Undefined]
    ELSE IF validateRule(getRuleOptionsSchema(rule), localOptions)
    THEN [returns |-> Undefined]
    ELSE [throws |-> "Error", message |-> "Value"]

\* the error validateRuleOptions throws in place of the one it caught
enhancedError(ruleId, source, message) ==
    [throws |-> "Error", message |-> message, ruleId |-> ruleId,
     source |-> source]

\* a validateRuleOptions that checks the schema whatever the severity
validateRuleOptionsAnySeverity(rule, ruleId, options, source) ==
    IF "throws" \in DOMAIN validateRuleSeverity(options)
    THEN enhancedError(ruleId, source, "Severity")
    ELSE IF "throws" \in DOMAIN validateRuleSchema(rule,
               IF IsArray(options) THEN slice(options.arr, 1) ELSE <<>>)
    THEN enhancedError(ruleId, source, "Value")
    ELSE [returns |-> Undefined]

\* ConfigValidator.validateRuleOptions
validateRuleOptions(rule, ruleId, options, source) ==
    IF "throws" \in DOMAIN validateRuleSeverity(options)
    THEN enhancedError(ruleId, source, "Severity")
    ELSE IF validateRuleSeverity(options).returns = Num(0)
    THEN [returns |-> Undefined]
    ELSE IF "throws" \in DOMAIN validateRuleSchema(rule,
               IF IsArray(options) THEN slice(options.arr, 1) ELSE <<>>)
    THEN enhancedError(ruleId, source, "Value")
    ELSE [returns |-> Undefined]

\* Map.prototype.get, and a lookup function over the same table: the
\* entry, else undefined
get(table, id) == IF id \in DOMAIN table THEN table[id] ELSE Undefined

\* a lookup that asks the built-in rules first
ruleForBuiltInFirst(getAdditionalRule, builtInRules, id) ==
    IF ~IsFalsy(get(builtInRules, id)) THEN get(builtInRules, id)
    ELSE IF ~IsFalsy(get(getAdditionalRule, id)) THEN get(getAdditionalRule, id)
    ELSE Other("null")

\* `getAdditionalRule(id) || this.builtInRules.get(id) || null`
ruleFor(getAdditionalRule, builtInRules, id) ==
    IF ~IsFalsy(get(getAdditionalRule, id)) THEN get(getAdditionalRule, id)
    ELSE IF ~IsFalsy(get(builtInRules, id)) THEN get(builtInRules, id)
    ELSE Other("null")

RECURSIVE validateEachRule(_, _, _, _)
\* the forEach of validateRules over the entries of rulesConfig in
\* Object.keys order: the first error ends it
validateEachRule(entries, source, getAdditionalRule, builtInRules) ==
    IF entries = <<>> THEN [returns |-> Undefined]
    ELSE IF "throws" \in DOMAIN validateRuleOptions(
                ruleFor(getAdditionalRule, builtInRules, entries[1].id),
                entries[1].id, entries[1].conf, source)
    THEN validateRuleOptions(
                ruleFor(getAdditionalRule, builtInRules, entries[1].id),
                entries[1].id, entries[1].conf, source)
    ELSE validateEachRule(Tail(entries), source, getAdditionalRule, builtInRules)

\* ConfigValidator.validateRules of a validator constructed with
\* builtInRules; rulesConfig is undefined or its entries
validateRules(rulesConfig, source, getAdditionalRule, builtInRules) ==
    IF rulesConfig = Undefined THEN [returns |-> Undefined]
    ELSE validateEachRule(rulesConfig.entries, source, getAdditionalRule, builtInRules)

\* a test that lets an environment set to false pass unknown
isUnknownEnvWhenEnabled(entry, getAdditionalEnv, BuiltInEnvironments) ==
    /\ entry.value
    /\ IsFalsy(get(getAdditionalEnv, entry.id))
    /\ IsFalsy(get(BuiltInEnvironments, entry.id))

\* `env = getAdditionalEnv(id) || BuiltInEnvironments.get(id) || null`
\* followed by `!env`
isUnknownEnv(entry, getAdditionalEnv, BuiltInEnvironments) ==
    /\ IsFalsy(get(getAdditionalEnv, entry.id))
    /\ IsFalsy(get(BuiltInEnvironments, entry.id))

RECURSIVE validateEachEnv(_, _, _, _)
\* the forEach of validateEnvironment over Object.keys(environment)
validateEachEnv(entries, source, getAdditionalEnv, BuiltInEnvironments) ==
    IF entries = <<>> THEN [returns |-> Undefined]
    ELSE IF isUnknownEnv(entries[1], getAdditionalEnv, BuiltInEnvironments)
    THEN [throws |-> "Error", message |-> "Environment key is unknown",
          source |-> source, id |-> entries[1].id]
    ELSE validateEachEnv(Tail(entries), source, getAdditionalEnv, BuiltInEnvironments)

\* ConfigValidator.validateEnvironment; environment is undefined or its
\* entries, BuiltInEnvironments is conf/environments.js
validateEnvironment(environment, source, getAdditionalEnv, BuiltInEnvironments) ==
    IF IsFalsy(environment) THEN [returns |-> Undefined]
    ELSE validateEachEnv(environment.entries, source, getAdditionalEnv,
                         BuiltInEnvironments)

\* a normalizeConfigGlobal whose `case null` takes undefined too
normalizeConfigGlobalLoose(configuredValue) ==
    CASE configuredValue = Str("off") -> [returns |-> "off"]
      [] configuredValue \in {Other("true"), Str("true"), Str("writeable"),
                              Str("writable")} -> [returns |-> "writable"]
      [] configuredValue \in {Other("null"), Undefined, Other("false"), Str("false"),
                              Str("readable"), Str("readonly")} -> [returns |-> "readonly"]
      [] OTHER -> [throws |-> "Error"]

\* normalizeConfigGlobal
normalizeConfigGlobal(configuredValue) ==
    CASE configuredValue = Str("off") -> [returns |-> "off"]
      [] configuredValue \in {Other("true"), Str("true"), Str("writeable"),
                              Str("writable")} -> [returns |-> "writable"]
      [] configuredValue \in {Other("null"), Other("false"), Str("false"),
                              Str("readable"), Str("readonly")} -> [returns |-> "readonly"]
      [] OTHER -> [throws |-> "Error"]

RECURSIVE validateEachGlobal(_, _)
\* the forEach of validateGlobals over Object.entries(globalsConfig)
validateEachGlobal(entries, source) ==
    IF entries = <<>> THEN [returns |-> Undefined]
    ELSE IF "throws" \in DOMAIN normalizeConfigGlobal(entries[1].value)
    THEN [throws |-> "Error", message |-> "ESLint configuration of global is invalid",
          source |-> source, id |-> entries[1].id]
    ELSE validateEachGlobal(Tail(entries), source)

\* ConfigValidator.validateGlobals; globalsConfig is undefined or its
\* entries
validateGlobals(globalsConfig, source) ==
    IF IsFalsy(globalsConfig) THEN [returns |-> Undefined]
    ELSE validateEachGlobal(globalsConfig.entries, source)

\* statements run one after the other: the first error thrown, else none
firstError(outcomes) ==
    IF \E i \in 1..Len(outcomes) : "throws" \in DOMAIN outcomes[i]
    THEN outcomes[CHOOSE i \in 1..Len(outcomes) :
                     /\ "throws" \in DOMAIN outcomes[i]
                     /\ \A j \in 1..(i - 1) : "throws" \notin DOMAIN outcomes[j]]
    ELSE [returns |-> Undefined]

\* ConfigValidator.validateConfigSchema: conf/config-schema.js asks of the
\* rules, env and globals sections that they are objects, which they are
\* in every config of the model
validateConfigSchema(config, source) == [returns |-> Undefined]

\* one pass of the loop of validate over config.overrides
validateOverride(config, override, source, getAdditionalRule, getAdditionalEnv, builtInRules, BuiltInEnvironments) ==
    firstError(<<validateRules(override.rules, source, getAdditionalRule, builtInRules),
                 validateEnvironment(override.env, source, getAdditionalEnv,
                                     BuiltInEnvironments),
                 validateGlobals(config.globals, source)>>)

\* ConfigValidator.validate
validate(config, source, getAdditionalRule, getAdditionalEnv, builtInRules, BuiltInEnvironments) ==
    firstError(<<validateConfigSchema(config, source),
                 validateRules(config.rules, source, getAdditionalRule, builtInRules),
                 validateEnvironment(config.env, source, getAdditionalEnv,
                                     BuiltInEnvironments),
                 validateGlobals(config.globals, source)>>
               \o [i \in 1..Len(config.overrides) |->
                     validateOverride(config, config.overrides[i], source,
                                      getAdditionalRule, getAdditionalEnv,
                                      builtInRules, BuiltInEnvironments)])

\* RULE_SEVERITY_STRINGS of config-ops
RULE_SEVERITY_STRINGS == <<OffStr, WarnStr, ErrorStr>>

\* a lookup that takes the severity number for a position counted from one
severityStringOffByOne(n) ==
    IF n \in 1..3 THEN Str(RULE_SEVERITY_STRINGS[n]) ELSE Str(RULE_SEVERITY_STRINGS[1])

\* `RULE_SEVERITY_STRINGS[n] || RULE_SEVERITY_STRINGS[0]`
severityString(n) ==
    IF n \in 0..2 THEN Str(RULE_SEVERITY_STRINGS[n + 1]) ELSE Str(RULE_SEVERITY_STRINGS[1])

\* one pass of the forEach of normalizeToStrings: the rule config
\* afterwards
normalizeRuleConfig(ruleConfig) ==
    IF IsNumber(ruleConfig) THEN severityString(ruleConfig.num)
    ELSE IF IsArray(ruleConfig) /\ IsNumber(ElementZero(ruleConfig))
    THEN Arr(<<severityString(ruleConfig.arr[1].num)>> \o Tail(ruleConfig.arr))
    ELSE ruleConfig

\* normalizeToStrings: it returns nothing; `config` is the config object
\* after the call
normalizeToStrings(config) ==
    [returns |-> Undefined,
     config |-> IF IsFalsy(config.rules) THEN config
                ELSE [rules |-> [entries |->
                        [i \in 1..Len(config.rules.entries) |->
                           [id |-> config.rules.entries[i].id,
                            conf |-> normalizeRuleConfig(config.rules.entries[i].conf)]]]]]

\* VALID_SEVERITIES of config-ops
VALID_SEVERITIES == <<Num(0), Num(1), Num(2), Str(OffStr), Str(WarnStr), Str(ErrorStr)>>

\* Array.prototype.indexOf(x) !== -1
includes(xs, x) == \E i \in 1..Len(xs) : xs[i] = x

\* an isValidSeverity that does not lower-case a string severity
isValidSeverityCaseSensitive(ruleConfig) ==
    [returns |-> includes(VALID_SEVERITIES,
                          IF IsArray(ruleConfig) THEN ElementZero(ruleConfig)
                          ELSE ruleConfig)]

\* the rest of isValidSeverity once `severity` is known
isListedSeverity(severity) ==
    includes(VALID_SEVERITIES,
             IF IsString(severity) THEN Str(toLowerCase(severity.str)) ELSE severity)

\* isValidSeverity
isValidSeverity(ruleConfig) ==
    [returns |-> isListedSeverity(IF IsArray(ruleConfig) THEN ElementZero(ruleConfig)
                                  ELSE ruleConfig)]

\* isErrorSeverity
isErrorSeverity(ruleConfig) ==
    [returns |-> getRuleSeverity(ruleConfig).returns = Num(2)]

\* ------------------------------------------------------------------------
\* The arguments the stateless functions are called with
\* ------------------------------------------------------------------------
RECURSIVE Casings(_)
\* every spelling of a word in capitals and small letters
Casings(w) ==
    IF w = <<>> THEN {<<>>}
    ELSE {<<c>> \o t : c \in {w[1], UpperOf(w[1])}, t \in Casings(Tail(w))}

SeverityStrings ==
    Casings(OffStr) \cup Casings(WarnStr) \cup Casings(ErrorStr)
    \cup {<<"b", "o", "g", "u", "s">>, <<>>, <<"2">>,
          <<"e", "r", "r", "o", "r", "s">>,
          <<"c", "o", "n", "s", "t", "r", "u", "c", "t", "o", "r">>,
          <<"C", "o", "n", "s", "t", "r", "u", "c", "t", "o", "r">>,
          <<"t", "o", "S", "t", "r", "i", "n", "g">>}

SeverityValues ==
    {Num(n) : n \in -1..3}
    \cup {Str(cs) : cs \in SeverityStrings}
    \cup {Other(k) : k \in {"undefined", "null", "true", "NaN", "object"}}

RECURSIVE OptionsOfLen(_)
OptionsOfLen(n) == IF n = 0 THEN <<>> ELSE Append(OptionsOfLen(n - 1), Other("object"))

\* RuleConf: a severity, or an array of a severity and options
RuleConfs ==
    SeverityValues \cup {Arr(<<>>)}
    \cup {Arr(<<v>> \o OptionsOfLen(n)) : v \in SeverityValues, n \in 0..MaxOptions}

RECURSIVE SeqsOfLen(_, _)
SeqsOfLen(S, n) ==
    IF n = 0 THEN {<<>>} ELSE {Append(t, x) : t \in SeqsOfLen(S, n - 1), x \in S}

SeqsUpTo(S, n) == UNION {SeqsOfLen(S, k) : k \in 0..n}

\* the ignore predicate of an extracted config: undefined, or its patterns
IgnorePredicates ==
    {Undefined}
    \cup {[patterns |-> ps] :
            ps \in SeqsUpTo({"/**/node_modules/*", "dist", "*.min.js"}, MaxPatterns)}

\* candidate values of IgnorePattern.DefaultPatterns
DefaultPatternLists ==
    SeqsUpTo({"/**/node_modules/*", "dist"}, MaxDefaults) \ {<<>>}

\* the resolved parser of an extracted config: null, or a parser with the
\* identifier it was declared by (held in filePath) and its loaded module
ResolvedParsers ==
    {Other("null")} \cup {[filePath |-> f, definition |-> "module"] :
                   f \in {"espree", "./my-parser.js"}}

\* the keys of config.plugins in Object.keys order: distinct plugin
\* identifiers, the empty identifier among them
PluginKeys ==
    {ks \in SeqsUpTo({"", "react", "import"}, MaxPatterns) :
        \A i, j \in 1..Len(ks) : i # j => ks[i] # ks[j]}

\* how many patterns, plugins and parsers a config holds
SizeOf(config) ==
    Len(patternsOf(config.ignores)) + Len(config.plugins)
    + (IF config.parser = Other("null") THEN 0 ELSE 1)

\* the extracted configs handed to toCompatibleObjectAsConfigFileContent
ExtractedConfigs ==
    {config \in [ignores : IgnorePredicates, parser : ResolvedParsers,
                 plugins : PluginKeys] : SizeOf(config) <= MaxPatterns}

\* rule definitions: without a schema, with an empty tuple schema (no
\* options allowed), with a tuple schema under meta, with a full schema
NoSchemaRule == [schema |-> Undefined, meta |-> Undefined]
NoOptionsRule == [schema |-> [tuple |-> <<>>], meta |-> Undefined]
StringOptionRule ==
    [schema |-> Undefined, meta |-> [schema |-> [tuple |-> <<[type |-> "string"]>>]]]
FullSchemaRule ==
    [schema |-> [type |-> "array", items |-> <<[type |-> "object"]>>,
                 minItems |-> 1, maxItems |-> 1],
     meta |-> Undefined]

Rules == {NoSchemaRule, NoOptionsRule, StringOptionRule, FullSchemaRule}

\* the severities rule options are validated with
ValidatedSeverities ==
    {Num(n) : n \in 0..3}
    \cup {Str(cs) : cs \in Casings(OffStr)}
    \cup {Str(WarnStr), Str(ErrorStr), Str(<<"E", "r", "r", "o", "r">>),
          Str(<<"b", "o", "g", "u", "s">>), Undefined}

\* the options that follow a severity
OptionLists == SeqsUpTo({Other("object"), Str(<<"x">>)}, MaxOptions)

ValidatedRuleConfs ==
    ValidatedSeverities
    \cup {Arr(<<v>> \o os) : v \in ValidatedSeverities, os \in OptionLists}

\* the configuration source named in error messages
Sources == {"/work/.eslintrc.json"}

\* rules of one rules config
MaxRules == 2

\* the built-in rules the validator is constructed with
BuiltInRules == ("semi" :> NoOptionsRule) @@ ("quotes" :> NoOptionsRule)

\* the rules of the plugins: none (the default lookup), or one that is a
\* built-in rule's id too and one that is not
PluginRuleTables ==
    {<<>>, ("quotes" :> StringOptionRule) @@ ("my/rule" :> FullSchemaRule)}

RuleIds == {"semi", "quotes", "my/rule", "unknown"}

\* rules configs: undefined, or entries with distinct rule ids
RulesConfigs ==
    {Undefined}
    \cup {[entries |-> es] :
            es \in {t \in SeqsUpTo([id : RuleIds,
                                    conf : {Num(2), Str(<<"b", "o", "g", "u", "s">>),
                                            Arr(<<Num(2), Str(<<"x">>)>>)}],
                                   MaxRules) :
                      \A i, j \in 1..Len(t) : i # j => t[i].id # t[j].id}}

\* the built-in environments
BuiltInEnvs == ("browser" :> Other("object")) @@ ("node" :> Other("object"))

\* the environments of the plugins: none (the default lookup), or one
PluginEnvTables == {<<>>, ("my/env" :> Other("object"))}

\* objects with at most MaxRules distinct keys from ids, values from values
ObjectsOver(ids, values) ==
    {Undefined}
    \cup {[entries |-> es] :
            es \in {t \in SeqsUpTo([id : ids, value : values], MaxRules) :
                      \A i, j \in 1..Len(t) : i # j => t[i].id # t[j].id}}

\* `env` sections
Environments == ObjectsOver({"browser", "my/env", "bogus"}, BOOLEAN)

\* values of a global: the members of GlobalConf, the strings and null
\* that normalizeConfigGlobal names, and others
GlobalValues ==
    {Str(w) : w \in {"off", "true", "writeable", "writable", "false", "readable",
                     "readonly", "Readonly", "OFF", "on", ""}}
    \cup {Other(k) : k \in {"true", "false", "null", "undefined", "object"}}
    \cup {Num(0), Num(1)}

\* `globals` sections
GlobalsConfigs ==
    ObjectsOver({"window", "process"},
                {Str("off"), Other("true"), Other("null"), Str("Readonly"), Undefined})

\* entries of config.overrides
MaxOverrides == 1

\* the rules, env and globals sections of a config or of an override
\* entry: each absent or valid, or invalid
ConfigSections ==
    [rules : {Undefined,
              [entries |-> <<[id |-> "semi", conf |-> Str(<<"b", "o", "g", "u", "s">>)]>>]},
     env : {[entries |-> <<[id |-> "browser", value |-> TRUE]>>],
            [entries |-> <<[id |-> "bogus", value |-> TRUE]>>]},
     globals : {[entries |-> <<[id |-> "window", value |-> Str("readonly")]>>],
                [entries |-> <<[id |-> "window", value |-> Str("Readonly")]>>]}]

\* config objects: the sections and config.overrides (absent: no entries)
ConfigDatas ==
    {[rules |-> c.rules, env |-> c.env, globals |-> c.globals, overrides |-> os] :
        c \in ConfigSections, os \in SeqsUpTo(ConfigSections, MaxOverrides)}

\* configs handed to normalizeToStrings: without rules, or with rules of
\* distinct ids, old-style and new-style, valid and not
OldStyleConfigs ==
    {[rules |-> Undefined]}
    \cup {[rules |-> [entries |-> es]] :
            es \in {t \in SeqsUpTo([id : {"semi", "quotes"},
                                    conf : {Num(0), Num(1), Num(2), Num(3), Str(WarnStr),
                                            Str(<<"E", "r", "r", "o", "r">>),
                                            Arr(<<Num(2), Num(1)>>),
                                            Arr(<<Str(OffStr), Other("object")>>)}],
                                   MaxRules) :
                      \A i, j \in 1..Len(t) : i # j => t[i].id # t[j].id}}

\* the rule configs the two boolean severity readers are called with
SeverityReaderConfs ==
    ValidatedRuleConfs
    \cup {Arr(<<>>), Str(<<"2">>), Other("null"), Num(-1),
          Str(<<"c", "o", "n", "s", "t", "r", "u", "c", "t", "o", "r">>),
          Arr(<<Str(<<"c", "o", "n", "s", "t", "r", "u", "c", "t", "o", "r">>)>>)}

\* ------------------------------------------------------------------------
\* The stateless functions as a state machine: any call, in any order
\* ------------------------------------------------------------------------
factoryVars ==
    <<fs, ignoreFile, useEslintrc, cwd, baseConfigData, rulePaths,
      specificConfigPath, cliConfigData, heap, nextId, baseConfigArray,
      cliConfigArray, configCache, finalizeCache, validated, last,
      log, everReturned, returnedBefore, finalBefore, cachedBefore, nCalls>>

\* a factory with default options on a filesystem without config files,
\* which the functions neither read nor write
InitFunctions ==
    /\ fs = [d \in Dirs |-> "none"]
    /\ ignoreFile = FALSE
    /\ useEslintrc = TRUE
    /\ cwd = "/work"
    /\ baseConfigData = Null
    /\ rulePaths = 0
    /\ specificConfigPath = Null
    /\ cliConfigData = Null
    /\ Constructed
    /\ NoFunctionCalled

CallValidateRuleSeverity ==
    \E options \in RuleConfs :
        /\ call' = [fn |-> "validateRuleSeverity", arg |-> options]
        /\ result' = validateRuleSeverity(options)
        /\ UNCHANGED factoryVars

CallGetRuleSeverity ==
    \E ruleConfig \in RuleConfs :
        /\ call' = [fn |-> "getRuleSeverity", arg |-> ruleConfig]
        /\ result' = getRuleSeverity(ruleConfig)
        /\ UNCHANGED factoryVars

CallToCompatibleObject ==
    \E config \in ExtractedConfigs, DefaultPatterns \in DefaultPatternLists :
        /\ call' = [fn |-> "toCompatibleObjectAsConfigFileContent",
                    arg |-> [ignores |-> config.ignores, parser |-> config.parser,
                             plugins |-> config.plugins,
                             defaults |-> DefaultPatterns]]
        /\ result' = toCompatibleObjectAsConfigFileContent(config, DefaultPatterns)
        /\ UNCHANGED factoryVars

CallValidateRuleOptions ==
    \E rule \in Rules \cup {Other("null")}, options \in ValidatedRuleConfs,
       source \in Sources :
        /\ call' = [fn |-> "validateRuleOptions",
                    arg |-> [rule |-> rule, ruleId |-> "semi",
                             options |-> options, source |-> source]]
        /\ result' = validateRuleOptions(rule, "semi", options, source)
        /\ UNCHANGED factoryVars

CallValidateRules ==
    \E rulesConfig \in RulesConfigs, source \in Sources,
       getAdditionalRule \in PluginRuleTables :
        /\ call' = [fn |-> "validateRules",
                    arg |-> [rulesConfig |-> rulesConfig, source |-> source,
                             getAdditionalRule |-> getAdditionalRule]]
        /\ result' = validateRules(rulesConfig, source, getAdditionalRule, BuiltInRules)
        /\ UNCHANGED factoryVars

CallValidateEnvironment ==
    \E environment \in Environments, source \in Sources,
       getAdditionalEnv \in PluginEnvTables :
        /\ call' = [fn |-> "validateEnvironment",
                    arg |-> [environment |-> environment, source |-> source,
                             getAdditionalEnv |-> getAdditionalEnv]]
        /\ result' = validateEnvironment(environment, source, getAdditionalEnv,
                                         BuiltInEnvs)
        /\ UNCHANGED factoryVars

CallNormalizeConfigGlobal ==
    \E configuredValue \in GlobalValues :
        /\ call' = [fn |-> "normalizeConfigGlobal", arg |-> configuredValue]
        /\ result' = normalizeConfigGlobal(configuredValue)
        /\ UNCHANGED factoryVars

CallValidateGlobals ==
    \E globalsConfig \in GlobalsConfigs, source \in Sources :
        /\ call' = [fn |-> "validateGlobals",
                    arg |-> [globalsConfig |-> globalsConfig, source |-> source]]
        /\ result' = validateGlobals(globalsConfig, source)
        /\ UNCHANGED factoryVars

CallValidate ==
    \E config \in ConfigDatas, source \in Sources :
        /\ call' = [fn |-> "validate", arg |-> [config |-> config, source |-> source]]
        /\ result' = validate(config, source, <<>>, <<>>, BuiltInRules, BuiltInEnvs)
        /\ UNCHANGED factoryVars

CallNormalizeToStrings ==
    \E config \in OldStyleConfigs :
        /\ call' = [fn |-> "normalizeToStrings", arg |-> config]
        /\ result' = normalizeToStrings(config)
        /\ UNCHANGED factoryVars

CallIsValidSeverity ==
    \E ruleConfig \in SeverityReaderConfs :
        /\ call' = [fn |-> "isValidSeverity", arg |-> ruleConfig]
        /\ result' = isValidSeverity(ruleConfig)
        /\ UNCHANGED factoryVars

CallIsErrorSeverity ==
    \E ruleConfig \in SeverityReaderConfs :
        /\ call' = [fn |-> "isErrorSeverity", arg |-> ruleConfig]
        /\ result' = isErrorSeverity(ruleConfig)
        /\ UNCHANGED factoryVars

NextFunctions ==
    \/ CallValidateRuleSeverity
    \/ CallGetRuleSeverity
    \/ CallToCompatibleObject
    \/ CallValidateRuleOptions
    \/ CallValidateRules
    \/ CallValidateEnvironment
    \/ CallNormalizeConfigGlobal
    \/ CallValidateGlobals
    \/ CallValidate
    \/ CallNormalizeToStrings
    \/ CallIsValidSeverity
    \/ CallIsErrorSeverity

SpecFunctions == InitFunctions /\ [][NextFunctions]_vars

\* ------------------------------------------------------------------------
\* Vocabulary of the properties
\* ------------------------------------------------------------------------
\* a fragment loaded from a directory's config file by the walk
IsDirFragment(e) == e.name = ".eslintrc"

\* an element of the base layer
IsBaseLayer(e) == e.name \in {"DefaultIgnorePattern", "BaseConfig", "--rulesdir"}

\* a directory and its proper ancestors
Chain(d) == {d} \cup Ancestors(d)

\* the directories that have a directory-cache entry
Cached == {d \in Dirs : configCache[d] # NoArr}

\* the element sequence of a config array
ElemsOf(a) == heap[a].elems

\* the successful results logged for a directory
OkResults(d) == {i \in 1..Len(log[d]) : log[d][i].outcome = "ok"}

\* ------------------------------------------------------------------------
\* C1 - Idempotence: two calls of getConfigArrayForFile for paths of the
\* same directory that both return, with no clearCache() call between them,
\* return the identical stack object.
\* ------------------------------------------------------------------------
C1_Idempotence ==
    \A d \in Dirs : \A i, j \in OkResults(d) : log[d][i].ret = log[d][j].ret

\* two calls for a directory with a fragment in its stack have both returned
C1_Witness ==
    \E d \in Dirs : \E i, j \in OkResults(d) :
        /\ i < j
        /\ \E k \in 1..Len(ElemsOf(log[d][j].ret)) :
              IsDirFragment(ElemsOf(log[d][j].ret)[k])

\* ------------------------------------------------------------------------
\* C2 - Closer layer wins: in every stack the directory walk produced, the
\* base layers come first, a fragment of an ancestor directory precedes every
\* fragment of a descendant, and the stack of a directory with a fragment is
\* its parent's stack (the base layers at a root:true fragment or at the
\* filesystem root) followed by its own fragment.
\* ------------------------------------------------------------------------
C2_CloserLayerWins ==
    \A d \in Cached :
        LET s == ElemsOf(configCache[d])
            n == Len(s)
        IN /\ n >= 1
           /\ IsBaseLayer(s[1])
           /\ \A i \in 1..n : IsBaseLayer(s[i]) \/ IsDirFragment(s[i])
           /\ \A i, j \in 1..n :
                 i < j =>
                    /\ IsBaseLayer(s[j]) => IsBaseLayer(s[i])
                    /\ (IsDirFragment(s[i]) /\ IsDirFragment(s[j]))
                          => s[i].dir \in Ancestors(s[j].dir)
           /\ (IsDirFragment(s[n]) /\ s[n].dir = d) =>
                 IF s[n].root = "true" \/ dirname[d] = d
                 THEN \A i \in 1..(n - 1) : IsBaseLayer(s[i])
                 ELSE /\ dirname[d] \in Cached
                      /\ SubSeq(s, 1, n - 1) = ElemsOf(configCache[dirname[d]])

\* a cached stack holds the fragments of two directories of one chain
C2_Witness ==
    \E d \in Cached :
        LET s == ElemsOf(configCache[d])
        IN \E i, j \in 1..Len(s) :
              i < j /\ IsDirFragment(s[i]) /\ IsDirFragment(s[j])

\* ------------------------------------------------------------------------
\* C3 - Stop inheritance: when a directory Di on the chain of D holds a
\* root:true fragment, the stack resolved for D contains no fragment of a
\* proper ancestor of Di, whatever earlier queries cached for those
\* ancestors; what precedes the root:true fragment is base layers only.
\* ------------------------------------------------------------------------
C3_StopInheritance ==
    \A d \in Cached :
        LET s == ElemsOf(configCache[d])
        IN /\ \A di \in Chain(d) :
                 fs[di] = "root" =>
                    \A j \in 1..Len(s) :
                       IsDirFragment(s[j]) => s[j].dir \notin Ancestors(di)
           /\ \A i \in 1..Len(s) :
                 s[i].root = "true" => \A j \in 1..(i - 1) : IsBaseLayer(s[j])

\* a root:true directory is resolved after an ancestor's fragment was cached
C3_Witness ==
    \E d \in Cached : \E a \in Ancestors(d) \cap Cached :
        /\ fs[d] = "root"
        /\ fs[a] = "cfg"
        /\ configCache[a] < configCache[d]
        /\ \E k \in 1..Len(ElemsOf(configCache[a])) :
              IsDirFragment(ElemsOf(configCache[a])[k])
        /\ \E k \in 1..Len(ElemsOf(configCache[d])) :
              ElemsOf(configCache[d])[k].root = "true"

\* ------------------------------------------------------------------------
\* C4 - With cascading enabled, the walk for a directory that has no
\* fragment in it or in any ancestor returns exactly the base layer stack,
\* slots.baseConfigArray itself (hence the same object on repeated calls).
\* ------------------------------------------------------------------------
\* no config file in the directory or in any of its ancestors
NoFragmentReachable(d) == \A x \in Chain(d) : fs[x] = "none"

C4_BaseStackReturned ==
    (/\ last.op = "query"
     /\ useEslintrc
     /\ last.walk # NoArr
     /\ NoFragmentReachable(last.dir))
        => last.walk = baseConfigArray

\* ------------------------------------------------------------------------
\* C5 - NotFound, as claimed: with cascading enabled, ignoreNotFoundError
\* false and no fragment in the queried directory or any ancestor,
\* getConfigArrayForFile fails with ConfigurationNotFoundError naming that
\* directory, on every call.
\* ------------------------------------------------------------------------
C5_NotFoundAsClaimed ==
    (/\ last.op = "query"
     /\ useEslintrc
     /\ ~last.ignore
     /\ NoFragmentReachable(last.dir))
        => (last.outcome = "ConfigurationNotFoundError" /\ last.errDir = last.dir)

\* ------------------------------------------------------------------------
\* C5 - NotFound, amended: the failure is raised when, in addition, the base
\* layer holds only the default ignore patterns, the CLI layer is empty and
\* the home directory holds no personal config; then every call fails with
\* ConfigurationNotFoundError naming the directory, the repeated ones too.
\* ------------------------------------------------------------------------
C5_NotFound ==
    (/\ last.op = "query"
     /\ useEslintrc
     /\ ~last.ignore
     /\ NoFragmentReachable(last.dir)
     /\ Len(ElemsOf(baseConfigArray)) = 1
     /\ Len(ElemsOf(cliConfigArray)) = 0
     /\ fs[homePath] = "none")
        => (last.outcome = "ConfigurationNotFoundError" /\ last.errDir = last.dir)

\* a repeated call, served from the finalize cache, raises NotFound again
C5_Witness ==
    /\ last.op = "query"
    /\ last.outcome = "ConfigurationNotFoundError"
    /\ Len(log[last.dir]) >= 2
    /\ log[last.dir][Len(log[last.dir]) - 1].outcome = "ConfigurationNotFoundError"
    /\ ~last.personal
    /\ last.walk \in DOMAIN finalizeCache

\* ------------------------------------------------------------------------
\* C6 - getConfigArrayForFile never raises ConfigurationNotFoundError when
\* ignoreNotFoundError is true or useEslintrc is false; a query whose
\* finalized stack has at most one element then returns that finalized stack,
\* also after an earlier call for the directory raised NotFound.
\* ------------------------------------------------------------------------
C6_NotFoundSuppressed ==
    /\ (last.op = "query" /\ last.outcome = "ConfigurationNotFoundError")
          => (useEslintrc /\ ~last.ignore)
    /\ (/\ last.op = "query"
        /\ last.ignore \/ ~useEslintrc
        /\ last.walk \in DOMAIN finalizeCache
        /\ Len(ElemsOf(finalizeCache[last.walk])) <= 1)
          => (last.outcome = "ok" /\ last.ret = finalizeCache[last.walk])

\* a query with ignoreNotFoundError returns the one-element stack for which
\* the call before it raised NotFound
C6_Witness ==
    /\ last.op = "query"
    /\ last.ignore
    /\ last.outcome = "ok"
    /\ Len(ElemsOf(last.ret)) <= 1
    /\ Len(log[last.dir]) >= 2
    /\ log[last.dir][Len(log[last.dir]) - 1].outcome = "ConfigurationNotFoundError"

\* ------------------------------------------------------------------------
\* C7 - clearCache(), as claimed: after a completed clearCache() the
\* directory cache is empty and the base and CLI layers are new objects; the
\* next query for a previously cached directory invokes loadInDirectory for
\* that directory again (in the walk or as the personal config) and returns
\* a stack object that no query returned before the clearCache().
\* ------------------------------------------------------------------------
\* the last call invoked loadInDirectory on its own directory
LoadedOwnDir(l) ==
    \/ \E i \in 1..Len(l.loaded) : l.loaded[i] = l.dir
    \/ (l.personal /\ l.dir = homePath)

\* the step is a completed clearCache()
ClearCompletes == last'.op = "clearCache" /\ last'.outcome = "ok" /\ nCalls' # nCalls

\* the step is the query that follows a completed clearCache(), for a
\* directory that was cached when the clearCache() ran
NextQueryAfterClear ==
    /\ last.op = "clearCache"
    /\ last.outcome = "ok"
    /\ last'.op = "query"
    /\ last'.dir \in cachedBefore

\* what a completed clearCache() leaves behind
ClearRebuilds ==
    ClearCompletes =>
       /\ \A d \in Dirs : configCache'[d] = NoArr
       /\ baseConfigArray' \notin DOMAIN heap
       /\ cliConfigArray' \notin DOMAIN heap

\* no query returns a stack returned before the last completed clearCache()
ReturnsFreshStack ==
    (last'.op = "query" /\ last'.outcome = "ok") => last'.ret \notin returnedBefore'

C7_ClearCacheAsClaimed ==
    [][/\ ClearRebuilds
       /\ NextQueryAfterClear => LoadedOwnDir(last')
       /\ ReturnsFreshStack]_vars

\* ------------------------------------------------------------------------
\* C7 - clearCache(), amended: as claimed, except that the directory is
\* loaded again only when it is not the home-directory boundary (the home
\* directory while cwd is another directory), which the walk never loads.
\* ------------------------------------------------------------------------
C7_ClearCache ==
    [][/\ ClearRebuilds
       /\ (NextQueryAfterClear /\ ~(last'.dir = homePath /\ cwd # homePath))
             => \E i \in 1..Len(last'.loaded) : last'.loaded[i] = last'.dir
       /\ ReturnsFreshStack]_vars

\* a directory cached before a completed clearCache() was queried after it,
\* loaded again, and the query returned
C7_Witness ==
    /\ last.op = "query"
    /\ last.outcome = "ok"
    /\ last.dir \in cachedBefore
    /\ returnedBefore # {}
    /\ Len(log[last.dir]) = 1
    /\ \E i \in 1..Len(last.loaded) : last.loaded[i] = last.dir

\* ------------------------------------------------------------------------
\* C8 - A completed clearCache() discards the finalize cache with the
\* directory cache: no finalized stack computed before it is returned by a
\* query made after it.
\* ------------------------------------------------------------------------
C8_NoStaleFinalized ==
    (last.op \in {"query", "queryNoPath"} /\ last.outcome = "ok")
        => last.ret \notin finalBefore

\* a query returns after a clearCache() that found finalized stacks, for a
\* directory that was cached then
C8_Witness ==
    /\ last.op = "query"
    /\ last.outcome = "ok"
    /\ finalBefore # {}
    /\ last.dir \in cachedBefore
    /\ last.walk \in DOMAIN finalizeCache
    /\ finalizeCache[last.walk] = last.ret

\* ------------------------------------------------------------------------
\* C9 - Validation errors are fatal to the query: a getConfigArrayForFile
\* call whose final stack contains a fragment with an invalid rule severity,
\* an unknown environment, an unknown processor or a malformed global
\* returns no stack, on the first call and on every repeated call.
\* ------------------------------------------------------------------------
C9_ValidationFatal ==
    (last.op = "query" /\ last.outcome = "ok")
        => \A i \in 1..Len(ElemsOf(last.ret)) : ElemsOf(last.ret)[i].defect = "none"

\* ------------------------------------------------------------------------
\* C10 - Caches are never populated by a failed query: when
\* getConfigArrayForFile fails because a fragment load throws or because
\* validation throws, neither the directory cache nor the finalize cache has
\* gained an entry.
\* ------------------------------------------------------------------------
C10_FailedQueryLeavesCaches ==
    [][(/\ last'.op = "query"
        /\ nCalls' # nCalls
        /\ last'.outcome \in ValidationErrors \cup {"ParseError", "EACCES"})
          => (configCache' = configCache /\ finalizeCache' = finalizeCache)]_vars

\* ------------------------------------------------------------------------
\* C11 - Validation is memoized per fragment: the checks of
\* validateConfigArray run on an element only if no earlier call and no
\* earlier iteration ran them on it, so at most once per fragment object
\* over all calls and stacks; an element validated before is skipped.
\* ------------------------------------------------------------------------
C11_ValidatedOnce ==
    [][(last'.op = "query" /\ nCalls' # nCalls) =>
          /\ \A i \in 1..Len(last'.checked) :
                /\ last'.checked[i] \notin validated
                /\ last'.checked[i] \in validated'
          /\ \A i, j \in 1..Len(last'.checked) :
                last'.checked[i] = last'.checked[j] => i = j]_vars

\* a query validated a new stack and skipped a fragment in it that an
\* earlier query's stack had brought to the validator
C11_Witness ==
    /\ last.op = "query"
    /\ last.outcome = "ok"
    /\ last.checked # <<>>
    /\ \E i \in 1..Len(ElemsOf(last.ret)) :
          /\ IsDirFragment(ElemsOf(last.ret)[i])
          /\ \A k \in 1..Len(last.checked) :
                last.checked[k] # ElemsOf(last.ret)[i].id

\* ------------------------------------------------------------------------
\* C12 - Cache hit short-circuits: a query for a directory that has a
\* directory-cache entry gets that entry from the walk with no
\* loadInDirectory call; and while no query has thrown a load error since
\* the last clearCache() call, the walk has loaded each directory at most
\* once since that call.
\* ------------------------------------------------------------------------
\* the walk's loadInDirectory calls on directory x since the last clearCache()
WalkLoads(x) ==
    {t \in Dirs \X (1..MaxCalls) \X (1..Cardinality(Dirs)) :
        /\ t[2] <= Len(log[t[1]])
        /\ t[3] <= Len(log[t[1]][t[2]].loaded)
        /\ log[t[1]][t[2]].loaded[t[3]] = x}

\* no query since the last clearCache() ended in a load error
NoLoadFailure ==
    \A d \in Dirs : \A i \in 1..Len(log[d]) :
        log[d][i].outcome \notin {"ParseError", "EACCES"}

LoadedAtMostOnce == NoLoadFailure => \A x \in Dirs : Cardinality(WalkLoads(x)) <= 1

C12_CacheHitShortCircuits ==
    [][/\ (/\ last'.op = "query"
           /\ nCalls' # nCalls
           /\ configCache[last'.dir] # NoArr)
             => (last'.loaded = <<>> /\ last'.walk = configCache[last'.dir])
       /\ LoadedAtMostOnce']_vars

\* a query is answered from the directory cache for a directory whose
\* stack holds a fragment the walk loaded earlier
C12_Witness ==
    /\ last.op = "query"
    /\ last.loaded = <<>>
    /\ last.walk # NoArr
    /\ Len(log[last.dir]) >= 2
    /\ \E x \in Chain(last.dir) : WalkLoads(x) # {} /\ fs[x] = "cfg"

\* ------------------------------------------------------------------------
\* C13 - CLI options overwrite config files: every stack a query with a
\* file path returns ends with the elements of the CLI stack, which are
\* ordered --config fragments, ignore-file fragments, CLIOptions fragments;
\* every directory fragment and the personal config precede all of them.
\* ------------------------------------------------------------------------
CLIRank(e) ==
    CASE e.name = "--config" -> 1
      [] e.name = ".eslintignore" -> 2
      [] e.name = "CLIOptions" -> 3
      [] OTHER -> 0

C13_CLILayerLast ==
    /\ \A i, j \in 1..Len(ElemsOf(cliConfigArray)) :
          /\ CLIRank(ElemsOf(cliConfigArray)[i]) > 0
          /\ i < j => CLIRank(ElemsOf(cliConfigArray)[i])
                         <= CLIRank(ElemsOf(cliConfigArray)[j])
    /\ (last.op = "query" /\ last.outcome = "ok") =>
          LET s == ElemsOf(last.ret)
              c == ElemsOf(cliConfigArray)
          IN /\ Len(s) >= Len(c)
             /\ SubSeq(s, Len(s) - Len(c) + 1, Len(s)) = c
             /\ \A i \in 1..(Len(s) - Len(c)) : CLIRank(s[i]) = 0

\* a returned stack holds a directory fragment and a CLI layer of two kinds
C13_Witness ==
    /\ last.op = "query"
    /\ last.outcome = "ok"
    /\ \E i \in 1..Len(ElemsOf(last.ret)) : IsDirFragment(ElemsOf(last.ret)[i])
    /\ \E i, j \in 1..Len(ElemsOf(cliConfigArray)) :
          CLIRank(ElemsOf(cliConfigArray)[i]) < CLIRank(ElemsOf(cliConfigArray)[j])

\* ------------------------------------------------------------------------
\* C14 - The default-ignore-pattern fragment is the lowest-precedence
\* layer: in every reachable state it is the first element of the base
\* stack and of every stack getConfigArrayForFile has returned, with or
\* without a file path.
\* ------------------------------------------------------------------------
StartsWithDefaultIgnore(a) ==
    Len(ElemsOf(a)) >= 1 /\ ElemsOf(a)[1].name = "DefaultIgnorePattern"

C14_DefaultIgnoreFirst ==
    /\ StartsWithDefaultIgnore(baseConfigArray)
    /\ \A a \in everReturned : StartsWithDefaultIgnore(a)
    /\ (last.op \in {"query", "queryNoPath"} /\ last.outcome = "ok")
          => StartsWithDefaultIgnore(last.ret)

\* a returned stack holds the baseConfig layer and a directory fragment
\* behind the default ignore patterns
C14_Witness ==
    /\ last.op = "query"
    /\ last.outcome = "ok"
    /\ \E i \in 1..Len(ElemsOf(last.ret)) : ElemsOf(last.ret)[i].name = "BaseConfig"
    /\ \E i \in 1..Len(ElemsOf(last.ret)) : IsDirFragment(ElemsOf(last.ret)[i])

\* ------------------------------------------------------------------------
\* C15 - setOverrideConfig(d) requires a following clearCache(): the call
\* stores d and leaves the heap, the base stack, the CLI stack and both
\* caches unchanged; every query returns a stack whose CLI layer carries the
\* data of the CLI stack (so the data it was built from, not d); a completed
\* clearCache() builds the CLI stack from the stored data.
\* ------------------------------------------------------------------------
\* the config data of the CLIOptions element of a stack, Null without one
CLIDataOf(es) ==
    IF \E i \in 1..Len(es) : es[i].name = "CLIOptions"
    THEN (CHOOSE e \in {es[i] : i \in 1..Len(es)} : e.name = "CLIOptions").data
    ELSE Null

C15_OverrideNeedsClearCache ==
    [][/\ (last'.op = "setOverrideConfig" /\ nCalls' # nCalls) =>
             /\ cliConfigData' \in CLIData
             /\ UNCHANGED <<heap, baseConfigArray, cliConfigArray, configCache,
                            finalizeCache>>
       /\ (/\ last'.op \in {"query", "queryNoPath"}
           /\ nCalls' # nCalls
           /\ last'.outcome = "ok") =>
             /\ CLIDataOf(heap'[last'.ret].elems) = CLIDataOf(heap[cliConfigArray].elems)
             /\ cliConfigArray' = cliConfigArray
       /\ ClearCompletes =>
             /\ CLIDataOf(heap'[cliConfigArray'].elems) = cliConfigData
             /\ cliConfigData' = cliConfigData]_vars

\* a query returns a stack built from the data that a setOverrideConfig
\* call stored and a clearCache() applied
C15_Witness ==
    /\ last.op = "query"
    /\ last.outcome = "ok"
    /\ CLIDataOf(ElemsOf(last.ret)) = "cliB"
    /\ cliConfigData = "cliB"

\* ------------------------------------------------------------------------
\* C16 - getConfigArrayForFile without a file path returns a new stack of
\* exactly the base stack's elements followed by the CLI stack's; it loads
\* no directory, writes neither cache, validates nothing and never raises
\* ConfigurationNotFoundError (it always returns).
\* ------------------------------------------------------------------------
C16_NoPathQuery ==
    [][(last'.op = "queryNoPath" /\ nCalls' # nCalls) =>
          /\ last'.outcome = "ok"
          /\ last'.ret \notin DOMAIN heap
          /\ heap'[last'.ret].elems
                = heap[baseConfigArray].elems \o heap[cliConfigArray].elems
          /\ last'.loaded = <<>>
          /\ ~last'.personal
          /\ last'.checked = <<>>
          /\ UNCHANGED <<configCache, finalizeCache, validated>>]_vars

\* a call without a file path returns while cascading is on, the caches
\* hold entries and the home directory holds a personal config
C16_Witness ==
    /\ last.op = "queryNoPath"
    /\ useEslintrc
    /\ Cached # {}
    /\ DOMAIN finalizeCache # {}
    /\ Len(ElemsOf(last.ret)) >= 2

\* ------------------------------------------------------------------------
\* C17 - When useEslintrc is false no config file is loaded: the walk
\* calls loadInDirectory on no directory, the personal config is not
\* loaded, the directory cache stays empty and the returned stack is exactly
\* the base stack's elements followed by the CLI stack's.
\* ------------------------------------------------------------------------
C17_NoEslintrc ==
    ~useEslintrc =>
       /\ Cached = {}
       /\ last.op = "query" =>
             /\ last.loaded = <<>>
             /\ ~last.personal
             /\ last.outcome # "ConfigurationNotFoundError"
             /\ last.outcome = "ok" =>
                   ElemsOf(last.ret)
                      = ElemsOf(baseConfigArray) \o ElemsOf(cliConfigArray)

\* with useEslintrc false a query returns for a directory with a config file
C17_Witness ==
    /\ ~useEslintrc
    /\ last.op = "query"
    /\ last.outcome = "ok"
    /\ fs[last.dir] # "none"

\* ------------------------------------------------------------------------
\* C18 - Severity normalization: validateRuleSeverity returns the number
\* 0, 1 or 2 for a rule config whose severity (the config itself, or its
\* first element when it is an array) is 0, 1, 2 or a spelling of "off",
\* "warn", "error" in any mix of capitals and small letters, and throws for
\* every other severity.
\* ------------------------------------------------------------------------
\* the severity of a rule config: its first element when it is an array
SeverityOf(ruleConf) ==
    IF IsArray(ruleConf)
    THEN (IF Len(ruleConf.arr) > 0 THEN ruleConf.arr[1] ELSE Undefined)
    ELSE ruleConf

\* v is the string w, letter case aside
SpelledAs(v, w) ==
    /\ IsString(v)
    /\ Len(v.str) = Len(w)
    /\ \A i \in 1..Len(w) : v.str[i] \in {w[i], UpperOf(w[i])}

\* the number a valid severity stands for, -1 for an invalid one
MeaningOf(v) ==
    IF v = Num(0) \/ SpelledAs(v, OffStr) THEN 0
    ELSE IF v = Num(1) \/ SpelledAs(v, WarnStr) THEN 1
    ELSE IF v = Num(2) \/ SpelledAs(v, ErrorStr) THEN 2
    ELSE -1

C18_SeverityNormalization ==
    call.fn = "validateRuleSeverity" =>
       IF MeaningOf(SeverityOf(call.arg)) >= 0
       THEN result = [returns |-> Num(MeaningOf(SeverityOf(call.arg)))]
       ELSE DOMAIN result = {"throws"}

\* validateRuleSeverity(["Error", {}]) has returned 2
C18_Witness ==
    /\ call.fn = "validateRuleSeverity"
    /\ call.arg = Arr(<<Str(<<"E", "r", "r", "o", "r">>), Other("object")>>)
    /\ result = [returns |-> Num(2)]

\* ------------------------------------------------------------------------
\* C19 - getRuleSeverity returns the numeric severity when the rule
\* config's severity is valid and 0 for every other value; its result is
\* always one of 0, 1, 2 and it never throws.
\* ------------------------------------------------------------------------
C19_GetRuleSeverity ==
    call.fn = "getRuleSeverity" =>
       /\ result \in {[returns |-> Num(0)], [returns |-> Num(1)], [returns |-> Num(2)]}
       /\ IF MeaningOf(SeverityOf(call.arg)) >= 0
          THEN result = [returns |-> Num(MeaningOf(SeverityOf(call.arg)))]
          ELSE result = [returns |-> Num(0)]

\* ------------------------------------------------------------------------
\* C20 - toCompatibleObjectAsConfigFileContent strips the default ignore
\* patterns exactly when they are the leading subsequence of the ignore
\* patterns: the output is then the remaining patterns in their order;
\* otherwise it is the full pattern list, and the empty list when there is
\* no ignore predicate.
\* ------------------------------------------------------------------------
C20_StripsDefaultPatterns ==
    call.fn = "toCompatibleObjectAsConfigFileContent" =>
       LET out == result.returns.ignorePatterns
           defaults == call.arg.defaults
       IN IF call.arg.ignores = Undefined THEN out = <<>>
          ELSE LET ps == call.arg.ignores.patterns
               IN IF /\ Len(ps) >= Len(defaults)
                     /\ SubSeq(ps, 1, Len(defaults)) = defaults
                  THEN defaults \o out = ps
                  ELSE out = ps

\* two default patterns were stripped and a pattern from the middle of the
\* default list, which follows them, was kept
C20_Witness ==
    /\ call.fn = "toCompatibleObjectAsConfigFileContent"
    /\ call.arg.defaults = <<"/**/node_modules/*", "dist">>
    /\ call.arg.ignores = [patterns |-> <<"/**/node_modules/*", "dist", "dist">>]
    /\ result.returns.ignorePatterns = <<"dist">>

ContainingDir(filePath) == IF filePath.dir = "." THEN cwd ELSE filePath.dir

\* the queries since the last clearCache() call that returned and whose
\* path has the containing directory of filePath
ReturnedFor(filePath) ==
    {e \in UNION {{log[x][i] : i \in 1..Len(log[x])} : x \in Dirs} :
        /\ e.outcome = "ok"
        /\ ContainingDir(e.path) = ContainingDir(filePath)}

C22_DependsOnDirectoryOnly ==
    [][(last'.op = "query" /\ nCalls' # nCalls) =>
          \A e \in ReturnedFor(last'.path) :
              /\ last'.loaded = <<>>
              /\ ~last'.personal
              /\ last'.outcome \in {"ok", "ConfigurationNotFoundError"}
              /\ last'.outcome = "ok" => last'.ret = e.ret
              /\ last'.ignore => last'.outcome = "ok"]_vars

\* a query by a relative path has returned the stack, with a fragment in
\* it, that an earlier query by an absolute path of the same directory got
C22_Witness ==
    /\ last.op = "query"
    /\ last.outcome = "ok"
    /\ last.path.dir = "."
    /\ \E i \in 1..Len(log[cwd]) :
          /\ log[cwd][i].path.dir = cwd
          /\ log[cwd][i].ret = last.ret
    /\ \E k \in 1..Len(ElemsOf(last.ret)) : IsDirFragment(ElemsOf(last.ret)[k])

\* ------------------------------------------------------------------------
\* C23 - Home-directory boundary: when the walk reaches the home directory
\* and cwd is not the home directory, the walk stops there without loading
\* the home directory or an ancestor of it and caches the base stack for the
\* home directory, and no directory-cache stack of the home directory or of
\* a directory below it holds a fragment of the home directory or of its
\* ancestors; when cwd is the home directory, the walk loads the home
\* directory and caches for it what it caches for any directory: its
\* parent's stack itself when it has no fragment, a stack ending in its own
\* fragment when it has one, the base stack when it cannot be read.
\* ------------------------------------------------------------------------
\* the query that just ended wrote the directory-cache entry of d
NewlyCached(d) == configCache[d] = NoArr /\ configCache'[d] # NoArr

\* the directories the walk of the query that just ended has loaded
LoadedNow == {last'.loaded[i] : i \in 1..Len(last'.loaded)}

HomeBoundaryStops ==
    [][(cwd # homePath /\ NewlyCached(homePath)) =>
          /\ configCache'[homePath] = baseConfigArray
          /\ LoadedNow \cap Chain(homePath) = {}
          /\ \A a \in Ancestors(homePath) : configCache'[a] = configCache[a]]_vars

HomeFragmentsKeptOut ==
    cwd # homePath =>
       \A d \in Cached :
          homePath \in Chain(d) =>
             \A i \in 1..Len(ElemsOf(configCache[d])) :
                ElemsOf(configCache[d])[i].dir \notin Chain(homePath)

HomeWalkedFromHome ==
    [][(cwd = homePath /\ NewlyCached(homePath)) =>
          LET s == heap'[configCache'[homePath]].elems
          IN /\ homePath \in LoadedNow
             /\ fs[homePath] = "none" =>
                   /\ configCache'[homePath] = configCache'[dirname[homePath]]
                   /\ dirname[homePath] \in LoadedNow
                         \/ configCache[dirname[homePath]] # NoArr
             /\ fs[homePath] \in {"cfg", "root", "bad"} =>
                   /\ IsDirFragment(s[Len(s)])
                   /\ s[Len(s)].dir = homePath
             /\ fs[homePath] = "denied" =>
                   configCache'[homePath] = baseConfigArray]_vars

C23_HomeBoundary ==
    /\ HomeBoundaryStops
    /\ []HomeFragmentsKeptOut
    /\ HomeWalkedFromHome

\* with cwd outside the home directory and a config file in the home
\* directory, a query for a directory below it has returned a stack with
\* that directory's fragment in it
C23_Witness ==
    /\ cwd # homePath
    /\ fs[homePath] = "cfg"
    /\ last.op = "query"
    /\ last.dir = "/home/proj"
    /\ last.outcome = "ok"
    /\ configCache[homePath] = baseConfigArray
    /\ \E k \in 1..Len(ElemsOf(last.ret)) :
          /\ IsDirFragment(ElemsOf(last.ret)[k])
          /\ ElemsOf(last.ret)[k].dir = "/home/proj"

\* ------------------------------------------------------------------------
\* C24 - Permission-denied boundary: when loadInDirectory fails with EACCES
\* for a directory on the walk, the walk does not fail: it stops at that
\* directory, caches the base stack for it and loads no ancestor of it; a
\* child directory walked in the same query gets the base stack itself when
\* it has no fragment and the base stack's elements followed by its own
\* fragment when it has one.  The query ends in EACCES only when the
\* personal config load of _finalizeConfigArray, a later step, raises it.
\* ------------------------------------------------------------------------
\* the directories the walk of the query that just ended could not read
DeniedNow == {x \in LoadedNow : fs[x] = "denied"}

BrokenNow == {x \in LoadedNow : fs[x] = "broken"}

C25_LoadErrorPropagates ==
    [][(last'.op = "query" /\ nCalls' # nCalls) =>
          \A x \in BrokenNow :
             /\ last'.outcome = "ParseError"
             /\ last'.walk = NoArr
             /\ ~last'.personal
             /\ last'.loaded[Len(last'.loaded)] = x
             /\ \A i, j \in 1..Len(last'.loaded) :
                   last'.loaded[i] = last'.loaded[j] => i = j
             /\ configCache' = configCache
             /\ finalizeCache' = finalizeCache]_vars

\* a query for a directory with a config file has failed on the config file
\* of its parent directory, which cannot be parsed
C25_Witness ==
    /\ last.op = "query"
    /\ last.outcome = "ParseError"
    /\ fs[last.dir] = "cfg"
    /\ fs[dirname[last.dir]] = "broken"
    /\ last.loaded = <<last.dir, dirname[last.dir]>>
    /\ configCache[last.dir] = NoArr

\* ------------------------------------------------------------------------
\* C26 - A directory that produces no fragment shares its parent's stack:
\* the directory cache maps a directory the walk loaded without finding a
\* config file to the very object it maps the parent directory to, and the
\* walk that caches the filesystem root without a config file stores the
\* base stack object itself; no copy is made.
\* ------------------------------------------------------------------------
\* the walk loads d (it is not the home-directory boundary) and finds no
\* config file in it
ProducesNoFragment(d) ==
    fs[d] = "none" /\ ~(d = homePath /\ cwd # homePath)

SharesParentStack ==
    \A d \in Cached :
        (ProducesNoFragment(d) /\ dirname[d] # d) =>
            /\ dirname[d] \in Cached
            /\ configCache[d] = configCache[dirname[d]]

RootSharesBaseStack ==
    [][\A d \in Dirs :
          (NewlyCached(d) /\ ProducesNoFragment(d) /\ dirname[d] = d) =>
              configCache'[d] = baseConfigArray]_vars

C26_NoFragmentSharesParent == []SharesParentStack /\ RootSharesBaseStack

\* a directory without a config file is cached with the stack object of
\* its parent, which holds the parent's fragment
C26_Witness ==
    \E d \in Cached :
        /\ ProducesNoFragment(d)
        /\ dirname[d] # d
        /\ configCache[d] = configCache[dirname[d]]
        /\ configCache[d] # baseConfigArray
        /\ \E k \in 1..Len(ElemsOf(configCache[d])) :
              /\ IsDirFragment(ElemsOf(configCache[d])[k])
              /\ ElemsOf(configCache[d])[k].dir = dirname[d]

\* ------------------------------------------------------------------------
\* C27 - Every stack stored in the directory cache is frozen from the
\* moment it is stored, and every stack getConfigArrayForFile has returned
\* for a file path is frozen.
\* ------------------------------------------------------------------------
C27_StoredAndReturnedFrozen ==
    /\ \A d \in Cached : heap[configCache[d]].frozen
    /\ \A a \in everReturned : heap[a].frozen
    /\ (last.op = "query" /\ last.outcome = "ok") => heap[last.ret].frozen

\* a query has returned a stack that is not the walk's: the stack cached
\* for the directory, with its fragment, followed by the CLI layer
C27_Witness ==
    /\ last.op = "query"
    /\ last.outcome = "ok"
    /\ last.ret # last.walk
    /\ configCache[last.dir] = last.walk
    /\ \E k \in 1..Len(ElemsOf(last.walk)) : IsDirFragment(ElemsOf(last.walk)[k])
    /\ Len(ElemsOf(last.ret)) > Len(ElemsOf(last.walk))

\* ------------------------------------------------------------------------
\* C28 - A published stack is never mutated: no method call changes the
\* element sequence of a stack that is stored in the directory cache or the
\* finalize cache, that a query has returned, or that is the base stack or
\* the CLI stack of the factory; child stacks and finalized stacks are built
\* in arrays allocated by the call that builds them, so that no call fails
\* on a write to a frozen array.
\* ------------------------------------------------------------------------
\* the stacks other code can hold: cached, returned, or held in the slots
Published ==
    (Range(configCache) \ {NoArr}) \cup DOMAIN finalizeCache
    \cup Range(finalizeCache) \cup everReturned
    \cup {baseConfigArray, cliConfigArray}

C28_PublishedNeverMutated ==
    [][/\ \A a \in Published : heap'[a].elems = heap[a].elems
       /\ last'.outcome # "TypeError"]_vars

\* a query has built a child stack on a parent's stack that an earlier
\* query had cached, and has returned it
C28_Witness ==
    /\ last.op = "query"
    /\ last.outcome = "ok"
    /\ last.loaded = <<last.dir>>
    /\ dirname[last.dir] \in Cached
    /\ configCache[last.dir] # configCache[dirname[last.dir]]
    /\ \E k \in 1..Len(ElemsOf(configCache[dirname[last.dir]])) :
          IsDirFragment(ElemsOf(configCache[dirname[last.dir]])[k])
    /\ Len(ElemsOf(configCache[last.dir]))
          = Len(ElemsOf(configCache[dirname[last.dir]])) + 1
    /\ last.ret \in Range(finalizeCache)

\* ------------------------------------------------------------------------
\* C29 - The directory walk terminates for every starting directory: the
\* directories it loads form a chain that begins at the starting directory,
\* moves from each directory to its strictly shorter parent path and never
\* passes a terminal, so it is no longer than the starting directory's
\* depth; a walk that returns has ended at a cache hit, the home-directory
\* boundary, a permission-denied boundary, a root-flag fragment or the
\* filesystem root (or at once when cascading is disabled).
\* ------------------------------------------------------------------------
\* the number of path segments of a directory
Depth(d) == Cardinality(Ancestors(d))

\* the walk does not load d: its entry is served or it is the home boundary
StopsBeforeLoading(d) ==
    configCache[d] # NoArr \/ (d = homePath /\ cwd # homePath)

\* the walk does not go on to the parent of d, a directory it loaded
StopsAfterLoading(d) ==
    \/ fs[d] \in {"denied", "root"}
    \/ dirname[d] = d
    \/ StopsBeforeLoading(dirname[d])

C29_WalkTerminates ==
    [][(last'.op = "query" /\ nCalls' # nCalls) =>
          LET L == last'.loaded
              n == Len(last'.loaded)
          IN /\ n <= Depth(last'.dir) + 1
             /\ n > 0 => L[1] = last'.dir
             /\ \A i \in 1..(n - 1) :
                   /\ L[i + 1] = dirname[L[i]]
                   /\ Depth(L[i + 1]) < Depth(L[i])
                   /\ ~StopsAfterLoading(L[i])
                   /\ fs[L[i]] # "broken"
             /\ \A i \in 1..n : useEslintrc /\ ~StopsBeforeLoading(L[i])
             /\ last'.walk # NoArr =>
                   IF n = 0 THEN ~useEslintrc \/ StopsBeforeLoading(last'.dir)
                   ELSE StopsAfterLoading(L[n])
             /\ last'.walk = NoArr => (n > 0 /\ fs[L[n]] = "broken")]_vars

\* a walk from the deepest directory has loaded every directory up to the
\* filesystem root and returned
C29_Witness ==
    /\ last.op = "query"
    /\ last.outcome = "ok"
    /\ last.loaded = <<"/home/proj", "/home", "/">>

\* ------------------------------------------------------------------------
\* C30 - Compute once, freeze, publish: a query writes the directory-cache
\* entry of a directory at most once and only when the directory has no
\* entry; no call other than clearCache() changes or removes an entry that
\* exists.  Hence between two clearCache() calls an entry is written at
\* most once.
\* ------------------------------------------------------------------------
C30_EntryWrittenOnce ==
    [][/\ last'.op # "clearCache" =>
             \A d \in Cached : configCache'[d] = configCache[d]
       /\ (last'.op \in {"query", "queryNoPath"} /\ nCalls' # nCalls) =>
             /\ \A i, j \in 1..Len(last'.stored) :
                   last'.stored[i] = last'.stored[j] => i = j
             /\ \A i \in 1..Len(last'.stored) :
                   configCache[last'.stored[i]] = NoArr
             /\ {last'.stored[i] : i \in 1..Len(last'.stored)}
                   = {d \in Dirs : NewlyCached(d)}
       /\ last'.op \in {"setOverrideConfig", "clearCache"} =>
             \A d \in Dirs : ~NewlyCached(d)]_vars

\* a query has written the entry of its directory on top of the entries
\* of two ancestors that an earlier query had written
C30_Witness ==
    /\ last.op = "query"
    /\ last.outcome = "ok"
    /\ last.stored = <<last.dir>>
    /\ Cardinality(Cached) >= 3
    /\ Ancestors(last.dir) \subseteq Cached
    /\ Cardinality(Ancestors(last.dir)) = 2

\* ------------------------------------------------------------------------
\* C31 - clearCache() is all-or-nothing: a clearCache() call that fails
\* while it rebuilds the base layer or the CLI layer leaves the base stack,
\* the CLI stack and the directory cache as they were, and in no state does
\* the directory cache hold a stack built on a base stack other than the
\* one the factory holds.
\* ------------------------------------------------------------------------
\* every cached stack begins with the elements of the factory's base stack
CacheBuiltOnBase ==
    \A d \in Cached :
        /\ Len(ElemsOf(configCache[d])) >= Len(ElemsOf(baseConfigArray))
        /\ SubSeq(ElemsOf(configCache[d]), 1, Len(ElemsOf(baseConfigArray)))
              = ElemsOf(baseConfigArray)

C31_ClearCacheAllOrNothing ==
    /\ [][(last'.op = "clearCache" /\ nCalls' # nCalls /\ last'.outcome # "ok") =>
             /\ baseConfigArray' = baseConfigArray
             /\ cliConfigArray' = cliConfigArray
             /\ configCache' = configCache]_vars
    /\ []CacheBuiltOnBase

\* ------------------------------------------------------------------------
\* C32 - validateRuleOptions checks a rule's options against its schema
\* only when the normalized severity is 1 or 2: a rule config whose
\* severity is off (0 or "off" in any letter case) passes whatever options
\* follow it, an invalid severity fails with the severity error (before any
\* schema check), and with severity 1 or 2 the call fails exactly when the
\* options do not satisfy the rule's schema.
\* ------------------------------------------------------------------------
\* the options after the severity, as validateRuleSchema receives them
LocalOptions(options) ==
    IF IsArray(options) THEN slice(options.arr, 1) ELSE <<>>

C32_SchemaOnlyWhenOn ==
    call.fn = "validateRuleOptions" =>
        /\ SeverityOf(call.arg.options) \in {Num(0)} \cup {Str(cs) : cs \in Casings(OffStr)}
              => result = [returns |-> Undefined]
        /\ "throws" \in DOMAIN validateRuleSeverity(call.arg.options)
              => "throws" \in DOMAIN result /\ result.message = "Severity"
        /\ ("returns" \in DOMAIN validateRuleSeverity(call.arg.options)
            /\ validateRuleSeverity(call.arg.options).returns \in {Num(1), Num(2)})
              => ("throws" \in DOMAIN result
                    <=> "throws" \in DOMAIN validateRuleSchema(call.arg.rule,
                                               LocalOptions(call.arg.options)))

\* severity off, with an option the rule's schema forbids; the call returns
C32_Witness ==
    /\ call.fn = "validateRuleOptions"
    /\ call.arg.rule = NoOptionsRule
    /\ call.arg.options = Arr(<<Str(<<"O", "f", "F">>), Other("object")>>)
    /\ "throws" \in DOMAIN validateRuleSchema(call.arg.rule, LocalOptions(call.arg.options))
    /\ result = [returns |-> Undefined]

\* ------------------------------------------------------------------------
\* C33 - A rule id that is defined neither by a plugin nor in the built-in
\* rules is validated for severity only (with a valid severity it passes
\* whatever its options are, with an invalid severity it fails), and a
\* plugin's rule definition is the one whose schema is applied when a
\* built-in rule has the same id: validateRules fails exactly when some
\* entry has an invalid severity, or a severity of 1 or 2 and options that
\* the schema of its rule (the plugin's, else the built-in one) rejects.
\* ------------------------------------------------------------------------
\* the entries of the rules config validateRules was called with
EntriesValidated ==
    IF call.arg.rulesConfig = Undefined THEN <<>> ELSE call.arg.rulesConfig.entries

\* the definition whose schema applies to a rule id: the plugin's, else the
\* built-in one; FALSE when there is none
HasDefinition(id) == id \in DOMAIN call.arg.getAdditionalRule \cup DOMAIN BuiltInRules

DefinitionOf(id) ==
    IF id \in DOMAIN call.arg.getAdditionalRule THEN call.arg.getAdditionalRule[id]
    ELSE BuiltInRules[id]

\* an entry that must make validateRules fail
EntryInvalid(e) ==
    \/ "throws" \in DOMAIN validateRuleSeverity(e.conf)
    \/ /\ validateRuleSeverity(e.conf).returns \in {Num(1), Num(2)}
       /\ HasDefinition(e.id)
       /\ "throws" \in DOMAIN validateRuleSchema(DefinitionOf(e.id), LocalOptions(e.conf))

C33_UnknownRuleSeverityOnly ==
    call.fn = "validateRules" =>
        /\ "throws" \in DOMAIN result
              <=> \E i \in 1..Len(EntriesValidated) : EntryInvalid(EntriesValidated[i])
        /\ "throws" \in DOMAIN result
              => \E i \in 1..Len(EntriesValidated) :
                    /\ EntryInvalid(EntriesValidated[i])
                    /\ result.ruleId = EntriesValidated[i].id
                    /\ \A j \in 1..(i - 1) : ~EntryInvalid(EntriesValidated[j])

\* an undefined rule id with an option passes, next to a rule that the
\* plugin and the built-in rules both define, whose option the plugin's
\* schema accepts and the built-in schema rejects
C33_Witness ==
    /\ call.fn = "validateRules"
    /\ Len(EntriesValidated) = 2
    /\ EntriesValidated[1] = [id |-> "unknown", conf |-> Arr(<<Num(2), Str(<<"x">>)>>)]
    /\ EntriesValidated[2] = [id |-> "quotes", conf |-> Arr(<<Num(2), Str(<<"x">>)>>)]
    /\ "quotes" \in DOMAIN call.arg.getAdditionalRule
    /\ "throws" \in DOMAIN validateRuleSchema(BuiltInRules["quotes"], <<Str(<<"x">>)>>)
    /\ result = [returns |-> Undefined]

\* ------------------------------------------------------------------------
\* C35 - validateEnvironment fails exactly when some key of the environment
\* object is defined neither by the supplied plugin-environment lookup nor
\* in the built-in environments, whether that key is set to true or to
\* false; an absent environment object always passes, and the error names
\* the source and the (first) unknown key.
\* ------------------------------------------------------------------------
\* the keys of an object given by its entries
KeysOf(object) ==
    IF object = Undefined THEN {}
    ELSE {object.entries[i].id : i \in 1..Len(object.entries)}

\* the keys of the environment object that no lookup defines
UnknownEnvKeys ==
    KeysOf(call.arg.environment)
        \ (DOMAIN call.arg.getAdditionalEnv \cup DOMAIN BuiltInEnvs)

C35_UnknownEnvironmentFails ==
    call.fn = "validateEnvironment" =>
        /\ "throws" \in DOMAIN result <=> UnknownEnvKeys # {}
        /\ call.arg.environment = Undefined => result = [returns |-> Undefined]
        /\ "throws" \in DOMAIN result =>
              /\ result.source = call.arg.source
              /\ result.id \in UnknownEnvKeys
              /\ \E i \in 1..Len(call.arg.environment.entries) :
                    /\ call.arg.environment.entries[i].id = result.id
                    /\ \A j \in 1..(i - 1) :
                          call.arg.environment.entries[j].id \notin UnknownEnvKeys

\* a known environment, then an unknown one that is set to false: the call
\* fails and names the unknown one
C35_Witness ==
    /\ call.fn = "validateEnvironment"
    /\ call.arg.environment
          = [entries |-> <<[id |-> "browser", value |-> TRUE],
                           [id |-> "bogus", value |-> FALSE]>>]
    /\ "throws" \in DOMAIN result
    /\ result.id = "bogus"

\* ------------------------------------------------------------------------
\* C36 - normalizeConfigGlobal maps "off" to "off"; true, "true",
\* "writeable" and "writable" to "writable"; null, false, "false",
\* "readable" and "readonly" to "readonly"; and throws for every other
\* value, so validateGlobals fails exactly when some global has a value
\* outside these.
\* ------------------------------------------------------------------------
WritableSpellings == {Other("true"), Str("true"), Str("writeable"), Str("writable")}
ReadonlySpellings ==
    {Other("null"), Other("false"), Str("false"), Str("readable"), Str("readonly")}

\* the values the claim lists
ListedGlobalValues == {Str("off")} \cup WritableSpellings \cup ReadonlySpellings

\* the values of the globals section validateGlobals was called with
GlobalValuesValidated ==
    IF call.arg.globalsConfig = Undefined THEN {}
    ELSE {call.arg.globalsConfig.entries[i].value :
             i \in 1..Len(call.arg.globalsConfig.entries)}

GlobalsMapping ==
    /\ call.fn = "normalizeConfigGlobal" =>
          /\ call.arg = Str("off") => result = [returns |-> "off"]
          /\ call.arg \in WritableSpellings => result = [returns |-> "writable"]
          /\ call.arg \in ReadonlySpellings => result = [returns |-> "readonly"]
          /\ call.arg \notin ListedGlobalValues => "throws" \in DOMAIN result
    /\ call.fn = "validateGlobals" =>
          ("throws" \in DOMAIN result
              <=> GlobalValuesValidated \ ListedGlobalValues # {})

SectionsInvalid(c) ==
    \/ "throws" \in DOMAIN validateRules(c.rules, call.arg.source, <<>>, BuiltInRules)
    \/ "throws" \in DOMAIN validateEnvironment(c.env, call.arg.source, <<>>, BuiltInEnvs)
    \/ "throws" \in DOMAIN validateGlobals(c.globals, call.arg.source)

C34_ValidateCoversOverrides ==
    call.fn = "validate" =>
        ((\/ SectionsInvalid(call.arg.config)
          \/ \E i \in 1..Len(call.arg.config.overrides) :
                SectionsInvalid(call.arg.config.overrides[i]))
            => "throws" \in DOMAIN result)

\* ------------------------------------------------------------------------
\* C37 - normalizeToStrings replaces, in place, every numeric severity 0,
\* 1, 2 (a bare number or the first element of an array config) by "off",
\* "warn", "error" respectively, leaves string severities and all option
\* elements unchanged, and preserves getRuleSeverity of every rule whose
\* severity was valid; applying it twice gives the same result as applying
\* it once.
\* ------------------------------------------------------------------------
\* the rule configs before and after the call
RulesBefore ==
    IF call.arg.rules = Undefined THEN <<>> ELSE call.arg.rules.entries

RulesAfter ==
    IF result.config.rules = Undefined THEN <<>> ELSE result.config.rules.entries

\* one rule config before and after normalizeToStrings, as the claim has it
NormalizedAsClaimed(before, after) ==
    /\ IsArray(before) <=> IsArray(after)
    /\ IsArray(before) =>
          /\ Len(after.arr) = Len(before.arr)
          /\ \A k \in 2..Len(before.arr) : after.arr[k] = before.arr[k]
    /\ SeverityOf(before) = Num(0) => SeverityOf(after) = Str(OffStr)
    /\ SeverityOf(before) = Num(1) => SeverityOf(after) = Str(WarnStr)
    /\ SeverityOf(before) = Num(2) => SeverityOf(after) = Str(ErrorStr)
    /\ IsString(SeverityOf(before)) => after = before
    /\ "returns" \in DOMAIN validateRuleSeverity(before)
          => getRuleSeverity(after) = getRuleSeverity(before)

C37_NormalizeToStrings ==
    call.fn = "normalizeToStrings" =>
        /\ Len(RulesAfter) = Len(RulesBefore)
        /\ \A i \in 1..Len(RulesBefore) :
              /\ RulesAfter[i].id = RulesBefore[i].id
              /\ NormalizedAsClaimed(RulesBefore[i].conf, RulesAfter[i].conf)
        /\ normalizeToStrings(result.config) = result

\* a bare 1 becomes "warn", and [2, 1] becomes ["error", 1]
C37_Witness ==
    /\ call.fn = "normalizeToStrings"
    /\ RulesBefore = <<[id |-> "semi", conf |-> Num(1)],
                       [id |-> "quotes", conf |-> Arr(<<Num(2), Num(1)>>)]>>
    /\ RulesAfter = <<[id |-> "semi", conf |-> Str(WarnStr)],
                      [id |-> "quotes", conf |-> Arr(<<Str(ErrorStr), Num(1)>>)]>>

\* ------------------------------------------------------------------------
\* C38 - The severity readers agree: for every rule config, isValidSeverity
\* returns true exactly when validateRuleSeverity does not throw, and in
\* that case getRuleSeverity returns the same number as
\* validateRuleSeverity; isErrorSeverity is true exactly when the config is
\* valid and that number is 2.
\* ------------------------------------------------------------------------
\* validateRuleSeverity accepts the rule config
SeverityAccepted(ruleConfig) == "returns" \in DOMAIN validateRuleSeverity(ruleConfig)

C38_SeverityReadersAgree ==
    /\ call.fn \in {"isValidSeverity", "validateRuleSeverity", "getRuleSeverity"} =>
          /\ isValidSeverity(call.arg).returns <=> SeverityAccepted(call.arg)
          /\ SeverityAccepted(call.arg)
                => getRuleSeverity(call.arg) = validateRuleSeverity(call.arg)
    /\ call.fn = "isValidSeverity" =>
          (result.returns <=> SeverityAccepted(call.arg))
    /\ call.fn = "isErrorSeverity" =>
          (result.returns <=> (/\ SeverityAccepted(call.arg)
                               /\ validateRuleSeverity(call.arg).returns = Num(2)))

\* "Error" is neither a listed spelling nor a number, yet it is valid and
\* an error severity for every reader
C38_Witness ==
    /\ call.fn = "isErrorSeverity"
    /\ call.arg = Arr(<<Str(<<"E", "r", "r", "o", "r">>), Other("object")>>)
    /\ result = [returns |-> TRUE]
    /\ isValidSeverity(call.arg) = [returns |-> TRUE]
    /\ validateRuleSeverity(call.arg) = [returns |-> Num(2)]

\* ------------------------------------------------------------------------
\* C39 - Personal-config fallback: when a stack is finalized (on a miss of
\* the finalize cache), the home directory's fragment is loaded and
\* inserted after the directory stack and before the CLI layers if and
\* only if cascading is enabled and no element of the directory stack and
\* no element of the CLI layer comes from a file. Once the finalized result
\* is cached under the stack's identity the load is never repeated for
\* that stack; a finalization that fails caches nothing, and the next query
\* for the stack loads the home directory's fragment again.
\* ------------------------------------------------------------------------
\* this step is a query whose walk gave a directory stack
QueryFinalizes == last'.op = "query" /\ nCalls' # nCalls /\ last'.walk # NoArr

\* no element of the array comes from a file
NoFileElement(a) == \A i \in 1..Len(heap'[a].elems) : ~heap'[a].elems[i].file

\* the elements between the directory stack and the CLI layers in a
\* finalized stack
Between(final, walk, cli) == SubSeq(final, Len(walk) + 1, Len(final) - Len(cli))

\* final is walk, then the home directory's fragment if it was loaded and
\* there is one, then cli
FinalizedInOrder(final, walk, cli) ==
    /\ Len(final) >= Len(walk) + Len(cli)
    /\ SubSeq(final, 1, Len(walk)) = walk
    /\ SubSeq(final, Len(final) - Len(cli) + 1, Len(final)) = cli
    /\ Len(Between(final, walk, cli))
          = (IF last'.personal /\ fs[homePath] # "none" THEN 1 ELSE 0)
    /\ \A i \in 1..Len(Between(final, walk, cli)) :
          /\ Between(final, walk, cli)[i].name = "PersonalConfig"
          /\ Between(final, walk, cli)[i].dir = homePath

\* on a miss of the finalize cache the fragment is loaded exactly under the
\* three conditions, and a stack that gets cached has it in its place; on a
\* hit nothing is loaded; no entry of the finalize cache is ever removed
PersonalFallback ==
    /\ DOMAIN finalizeCache \subseteq DOMAIN finalizeCache'
    /\ (QueryFinalizes /\ last'.walk \in DOMAIN finalizeCache) => ~last'.personal
    /\ (QueryFinalizes /\ last'.walk \notin DOMAIN finalizeCache) =>
          /\ last'.personal <=> (/\ useEslintrc
                                 /\ NoFileElement(last'.walk)
                                 /\ NoFileElement(cliConfigArray))
          /\ last'.outcome \in {"ok", "ConfigurationNotFoundError"}
                => /\ last'.walk \in DOMAIN finalizeCache'
                   /\ FinalizedInOrder(heap'[finalizeCache'[last'.walk]].elems,
                                       heap'[last'.walk].elems,
                                       heap'[cliConfigArray].elems)

C39_PersonalFallback == [][PersonalFallback]_vars

\* the claim as worded: the fragment is loaded at most once per directory
\* stack, so a query does not load it for the stack the query before
\* loaded it for
C39_LoadedOncePerStack ==
    [][/\ PersonalFallback
       /\ (QueryFinalizes /\ last.op = "query" /\ last.personal
           /\ last'.walk = last.walk) => ~last'.personal]_vars

\* the home directory's fragment stands between the directory stack and a
\* CLI layer that holds no file
C39_Witness ==
    /\ last.op = "query"
    /\ last.outcome = "ok"
    /\ last.personal
    /\ Len(ElemsOf(cliConfigArray)) > 0
    /\ Len(ElemsOf(last.ret)) = Len(ElemsOf(last.walk)) + 1 + Len(ElemsOf(cliConfigArray))
    /\ ElemsOf(last.ret)[Len(ElemsOf(last.walk)) + 1].name = "PersonalConfig"

====
